---------------------------- MODULE Spec2Model ----------------------------
(***************************************************************************)
(* Model of the agentic tool-calling orchestrator of the Atlas Analyst     *)
(* web app: the useAgentChat hook (the conversation controller) and the    *)
(* ToolExecutor (tool dispatch and the SELECT-only validator), the         *)
(* selection context sendMessage builds, and the /api/agent endpoint.      *)
(*                                                                         *)
(* Text is modelled as a sequence of one-character strings, so that trim,  *)
(* toUpperCase, startsWith and includes are computed and not assumed.      *)
(***************************************************************************)
EXTENDS Integers, Sequences, FiniteSets, TLC

(***************************************************************************)
(* Text helpers (the String.prototype methods the executor uses).          *)
(***************************************************************************)
LowerCase == <<"a","b","c","d","e","f","g","h","i","j","k","l","m",
               "n","o","p","q","r","s","t","u","v","w","x","y","z">>
UpperCase == <<"A","B","C","D","E","F","G","H","I","J","K","L","M",
               "N","O","P","Q","R","S","T","U","V","W","X","Y","Z">>

WhiteSpace == {" ", "\t", "\n"}

UpperChar(c) ==
    IF \E i \in 1..26 : LowerCase[i] = c
    THEN UpperCase[CHOOSE i \in 1..26 : LowerCase[i] = c]
    ELSE c

ToUpperCase(s) == [i \in 1..Len(s) |-> UpperChar(s[i])]

RECURSIVE TrimStart(_)
TrimStart(s) ==
    IF s # <<>> /\ Head(s) \in WhiteSpace THEN TrimStart(Tail(s)) ELSE s

RECURSIVE TrimEnd(_)
TrimEnd(s) ==
    IF s # <<>> /\ s[Len(s)] \in WhiteSpace
    THEN TrimEnd(SubSeq(s, 1, Len(s) - 1))
    ELSE s

Trim(s) == TrimEnd(TrimStart(s))

StartsWith(s, prefix) ==
    /\ Len(s) >= Len(prefix)
    /\ SubSeq(s, 1, Len(prefix)) = prefix

Includes(s, sub) ==
    \E i \in 1..(Len(s) - Len(sub) + 1) : SubSeq(s, i, i + Len(sub) - 1) = sub


Min(a, b) == IF a < b THEN a ELSE b
Max(a, b) == IF a > b THEN a ELSE b

(***************************************************************************)
(* An optional JavaScript value: {} is undefined (or a value of the wrong  *)
(* type), {v} is the value v.                                              *)
(***************************************************************************)
Absent == {}
Some(v) == {v}
Get(o) == CHOOSE v \in o : TRUE

(***************************************************************************)
(* ToolCall and ToolResult (toolExecutor.ts).  A tool call the model       *)
(* returns may lack its function field; its arguments are JSON text that   *)
(* is unparsable ("invalid"), parses to null ("null") or to an object.     *)
(***************************************************************************)
NoError == "<undefined>"
NullResult == [kind |-> "null"]

NoTerms == [type |-> "undefined", text |-> <<>>, list |-> <<>>]
TermsString(text) == [type |-> "string", text |-> text, list |-> <<>>]
TermsArray(list) == [type |-> "array", text |-> <<>>, list |-> list]

NoFields ==
    [query |-> Absent, limit |-> Absent, terms |-> NoTerms, mode |-> Absent,
     regex |-> Absent, include_rating_distribution |-> Absent,
     count |-> Absent, rating_filter |-> Absent]

ArgsObject(fields) == [json |-> "object", fields |-> fields]
ArgsNull == [json |-> "null", fields |-> NoFields]
ArgsInvalid == [json |-> "invalid", fields |-> NoFields]

ToolCall(id, name, arguments) ==
    [id |-> id, function |-> [present |-> TRUE, name |-> name, arguments |-> arguments]]
ToolCallNoFunction(id) ==
    [id |-> id, function |-> [present |-> FALSE, name |-> "", arguments |-> ArgsInvalid]]

ToolResult(name, callId, result, error) ==
    [name |-> name, call_id |-> callId, result |-> result, error |-> error]

(***************************************************************************)
(* The query engine (coordinator.query over DuckDB).  eng.reviews is the   *)
(* reviews table, eng.rows the number of rows a raw SQL query yields, and  *)
(* the k-th query of one tool call throws when eng.failAt = k.  A LIMIT of *)
(* 0 in a modelled query stands for a query without a LIMIT clause.        *)
(***************************************************************************)
EngineQuery(sql, text, limit) == [sql |-> sql, text |-> text, limit |-> limit]
EngineFails(eng, k) == eng.failAt = k

Review(description, Rating) == [description |-> description, Rating |-> Rating]

\* The rows of a raw query's result, in the order the engine yields them.
AllRows(eng) == [i \in 1..eng.rows |-> [row |-> i]]

\* The text a single-quoted SQL literal denotes: '' is one quote.
RECURSIVE UnescapeQuotes(_)
UnescapeQuotes(s) ==
    IF s = <<>> THEN <<>>
    ELSE IF Len(s) >= 2 /\ s[1] = "'" /\ s[2] = "'"
    THEN <<"'">> \o UnescapeQuotes(SubSeq(s, 3, Len(s)))
    ELSE <<Head(s)>> \o UnescapeQuotes(Tail(s))

\* LIKE: % matches any run of characters and _ any one character.
RECURSIVE LikeMatch(_, _)
LikeMatch(text, pattern) ==
    IF pattern = <<>> THEN text = <<>>
    ELSE IF Head(pattern) = "%"
    THEN LikeMatch(text, Tail(pattern)) \/ (text # <<>> /\ LikeMatch(Tail(text), pattern))
    ELSE /\ text # <<>>
         /\ Head(pattern) = "_" \/ Head(pattern) = Head(text)
         /\ LikeMatch(Tail(text), Tail(pattern))

\* description ILIKE '%<escaped>%'
ILike(description, escaped) ==
    LikeMatch(ToUpperCase(description),
              ToUpperCase(<<"%">> \o UnescapeQuotes(escaped) \o <<"%">>))

\* regexp_matches(description, '<escaped>', 'i'), for the patterns of the
\* model: a pattern with an unclosed group is rejected by the engine, and a
\* pattern of plain characters matches where it occurs.
InvalidPattern(escaped) ==
    Cardinality({ i \in 1..Len(escaped) : escaped[i] = "(" })
        # Cardinality({ i \in 1..Len(escaped) : escaped[i] = ")" })

RegexpMatches(description, escaped) ==
    Includes(ToUpperCase(description), ToUpperCase(UnescapeQuotes(escaped)))

\* The positions of the table rows a WHERE clause selects, in table order.
RowIndexes(reviews) == [i \in 1..Len(reviews) |-> i]

\* LIMIT n
Limit(rows, n) == SubSeq(rows, 1, Min(Len(rows), n))

\* substring(0, 300) + '...' of a description longer than 300: lines 170, 367.
Excerpt(description) ==
    IF Len(description) > 300
    THEN SubSeq(description, 1, 300) \o <<".", ".", ".">>
    ELSE description

(***************************************************************************)
(* What a handler does: it returns a ToolResult or throws, having sent     *)
(* `queries` to the engine.                                                *)
(***************************************************************************)
Return(value, queries) ==
    [kind |-> "return", value |-> value, message |-> "", queries |-> queries]
Throw(message, queries) ==
    [kind |-> "throw", value |-> ToolResult("", "", NullResult, NoError),
     message |-> message, queries |-> queries]

SELECT == <<"S","E","L","E","C","T">>
dangerousKeywords ==
    { <<"D","R","O","P">>, <<"D","E","L","E","T","E">>, <<"I","N","S","E","R","T">>,
      <<"U","P","D","A","T","E">>, <<"A","L","T","E","R">>, <<"C","R","E","A","T","E">>,
      <<"T","R","U","N","C","A","T","E">> }

RowCap == 100

\* sqlQuery, lines 89-97: the SELECT-only check on the trimmed, upper-cased copy.
\* A check that looks for SELECT anywhere in the query.
ContainsSelect(query) == Includes(ToUpperCase(Trim(query)), SELECT)
IsSelect(query) == StartsWith(ToUpperCase(Trim(query)), SELECT)

\* A denylist scan over the query as it was written.
HasDangerousKeywordAsWritten(query) ==
    \E keyword \in dangerousKeywords : Includes(Trim(query), keyword)

\* sqlQuery, lines 100-110: the denylist scan over the same copy.
HasDangerousKeyword(query) ==
    \E keyword \in dangerousKeywords : Includes(ToUpperCase(Trim(query)), keyword)

\* The last 100 rows of the result.
LastRows(allRows) == SubSeq(allRows, Max(1, Len(allRows) - RowCap + 1), Len(allRows))

\* line 114: allRows.slice(0, 100)
FirstRows(allRows) == SubSeq(allRows, 1, Min(Len(allRows), RowCap))

sqlQuery(callId, query, eng) ==
    IF query = Absent
    THEN Throw("TypeError", <<>>)
    ELSE IF ~IsSelect(Get(query))
    THEN Return(ToolResult("sql_query", callId, NullResult,
                           "Only SELECT queries are allowed for security reasons"), <<>>)
    ELSE IF HasDangerousKeyword(Get(query))
    THEN Return(ToolResult("sql_query", callId, NullResult,
                           "Query contains forbidden keyword"), <<>>)
    ELSE LET sent == <<EngineQuery("raw", Get(query), 0)>>
             allRows == AllRows(eng)
             rows == FirstRows(allRows)
         IN  IF EngineFails(eng, 1)
             THEN Throw("engine error", sent)
             ELSE Return(ToolResult("sql_query", callId,
                                    [kind |-> "sql_query",
                                     rows |-> rows,
                                     row_count |-> Len(rows),
                                     total_matching |-> Len(allRows),
                                     truncated |-> Len(allRows) > 100],
                                    NoError), sent)


\* A limit capped from above only.
SafeLimitCapOnly(x, dflt, cap) ==
    LET given == IF x = Absent \/ Get(x) = 0 THEN dflt ELSE Get(x)
    IN  Min(given, cap)

\* `x || dflt` then Math.min(Math.max(1, .), cap): lines 139, 220 and 278.
SafeLimit(x, dflt, cap) ==
    LET given == IF x = Absent \/ Get(x) = 0 THEN dflt ELSE Get(x)
    IN  Min(Max(1, given), cap)

\* A fragment interpolated as it is.
EscapeNothing(s) == s

\* term.replace(/'/g, "''"): lines 138, 285, 289.
RECURSIVE EscapeQuotes(_)
EscapeQuotes(s) ==
    IF s = <<>> THEN <<>>
    ELSE IF Head(s) = "'" THEN <<"'", "'">> \o EscapeQuotes(Tail(s))
    ELSE <<Head(s)>> \o EscapeQuotes(Tail(s))

\* lines 167-173 and 364-370: the rows as the result lists them.
ReviewExcerpts(reviews, rows) ==
    [k \in 1..Len(rows) |->
        [id |-> rows[k], rating |-> reviews[rows[k]].Rating,
         excerpt |-> Excerpt(reviews[rows[k]].description)]]

textSearch(callId, searchQuery, limit, eng) ==
    IF searchQuery = Absent
    THEN Throw("TypeError", <<>>)
    ELSE LET escapedQuery == EscapeQuotes(Get(searchQuery))
             safeLimit == SafeLimit(limit, 10, 50)
             sql == EngineQuery("text_search_rows", escapedQuery, safeLimit)
             countSql == EngineQuery("text_search_count", escapedQuery, 0)
             matching == SelectSeq(RowIndexes(eng.reviews),
                                   LAMBDA i : ILike(eng.reviews[i].description, escapedQuery))
             rows == Limit(matching, safeLimit)
         IN  IF EngineFails(eng, 1) THEN Throw("engine error", <<sql>>)
             ELSE IF EngineFails(eng, 2) THEN Throw("engine error", <<sql, countSql>>)
             ELSE Return(ToolResult("text_search", callId,
                                    [kind |-> "text_search",
                                     query |-> Get(searchQuery),
                                     matches_returned |-> Len(rows),
                                     total_matches |-> Len(matching),
                                     reviews |-> ReviewExcerpts(eng.reviews, rows)],
                                    NoError), <<sql, countSql>>)

getStats(callId, includeDistribution, eng) ==
    LET withDistribution == includeDistribution = Absent \/ Get(includeDistribution)
        statsSql == EngineQuery("stats", <<>>, 0)
        distSql == EngineQuery("distribution", <<>>, 0)
    IN  IF EngineFails(eng, 1) THEN Throw("engine error", <<statsSql>>)
        ELSE IF ~withDistribution
        THEN Return(ToolResult("get_stats", callId,
                               [kind |-> "get_stats", rating_distribution |-> FALSE],
                               NoError), <<statsSql>>)
        ELSE IF EngineFails(eng, 2) THEN Throw("engine error", <<statsSql, distSql>>)
        ELSE Return(ToolResult("get_stats", callId,
                               [kind |-> "get_stats", rating_distribution |-> TRUE],
                               NoError), <<statsSql, distSql>>)

\* A rating condition for every filter given.
RatingConditionAlways(ratingFilter) ==
    IF ratingFilter # Absent /\ Get(ratingFilter) # 0 THEN ratingFilter ELSE Absent

\* getSample, lines 223-224: the rating condition is added only for 1..5
\* (Math.floor is the identity on the integers of the model).
RatingCondition(ratingFilter) ==
    IF ratingFilter # Absent /\ Get(ratingFilter) # 0
       /\ Get(ratingFilter) >= 1 /\ Get(ratingFilter) <= 5
    THEN Some(Get(ratingFilter))
    ELSE Absent

\* getSample, line 236: the filter the result reports.
FilterLabel(ratingFilter) ==
    IF ratingFilter # Absent /\ Get(ratingFilter) # 0 THEN ratingFilter ELSE Absent

getSample(callId, count, ratingFilter, eng) ==
    LET safeCount == SafeLimit(count, 5, 20)
        sql == [sql |-> "sample", text |-> <<>>, limit |-> safeCount,
                rating |-> RatingCondition(ratingFilter)]
        matching == SelectSeq(RowIndexes(eng.reviews),
                              LAMBDA i : sql.rating = Absent
                                         \/ eng.reviews[i].Rating = Get(sql.rating))
    IN  IF EngineFails(eng, 1) THEN Throw("engine error", <<sql>>)
        ELSE Return(ToolResult("get_sample", callId,
                               [kind |-> "get_sample",
                                sample_size |-> Len(Limit(matching, safeCount)),
                                filter |-> FilterLabel(ratingFilter)],
                               NoError), <<sql>>)


(***************************************************************************)
(* flexibleSearch: the terms are split on /[,;]|\s+AND\s+|\s+OR\s+/i.      *)
(***************************************************************************)
RECURSIVE WhiteSpaceRun(_, _)
WhiteSpaceRun(s, i) ==
    IF i <= Len(s) /\ s[i] \in WhiteSpace THEN 1 + WhiteSpaceRun(s, i + 1) ELSE 0

KeywordAt(s, i, word) ==
    /\ i + Len(word) - 1 <= Len(s)
    /\ ToUpperCase(SubSeq(s, i, i + Len(word) - 1)) = word

\* The length of the delimiter that matches at position i, 0 when none does.
DelimiterLen(s, i) ==
    IF s[i] \in {",", ";"} THEN 1
    ELSE LET w1 == WhiteSpaceRun(s, i)
             word == IF KeywordAt(s, i + w1, <<"A","N","D">>) THEN 3
                     ELSE IF KeywordAt(s, i + w1, <<"O","R">>) THEN 2
                     ELSE 0
             w2 == WhiteSpaceRun(s, i + w1 + word)
         IN  IF w1 > 0 /\ word > 0 /\ w2 > 0 THEN w1 + word + w2 ELSE 0

RECURSIVE SplitFrom(_, _, _)
SplitFrom(s, start, i) ==
    IF i > Len(s) THEN <<SubSeq(s, start, Len(s))>>
    ELSE LET m == DelimiterLen(s, i)
         IN  IF m > 0
             THEN <<SubSeq(s, start, i - 1)>> \o SplitFrom(s, i + m, i + m)
             ELSE SplitFrom(s, start, i + 1)

NonEmpty(t) == t # <<>>

\* The pieces taken as they are.
TrimNone(list) == list

\* map(t => t.trim()), lines 263 and 266
TrimAll(list) == [i \in 1..Len(list) |-> Trim(list[i])]

\* lines 258-267
NormalizeTerms(terms) ==
    IF terms.type = "string" THEN SelectSeq(TrimAll(SplitFrom(terms.text, 1, 1)), NonEmpty)
    ELSE IF terms.type = "array" THEN SelectSeq(TrimAll(terms.list), NonEmpty)
    ELSE <<>>

\* line 294: conditions.join(mode === 'AND' ? ' AND ' : ' OR '), mode defaulting to 'AND'.
Joiner(mode) == IF mode = Absent \/ Get(mode) = "AND" THEN "AND" ELSE "OR"

\* lines 281-294 as the engine reads them: the conditions of a WHERE clause
\* joined by AND or by OR.
ConditionHolds(q, term, r) ==
    IF q.regex THEN RegexpMatches(r.description, term) ELSE ILike(r.description, term)

WhereHolds(q, r) ==
    IF q.joiner = "AND"
    THEN \A i \in 1..Len(q.terms) : ConditionHolds(q, q.terms[i], r)
    ELSE \E i \in 1..Len(q.terms) : ConditionHolds(q, q.terms[i], r)

\* The engine throws on its k-th query, or on a pattern it cannot compile.
QueryThrows(eng, k, q) ==
    \/ EngineFails(eng, k)
    \/ q.regex /\ \E i \in 1..Len(q.terms) : InvalidPattern(q.terms[i])

\* A term count that reports 0 when its query fails.
TermCountZeroOnError(eng, k, q) ==
    IF EngineFails(eng, k) THEN 0
    ELSE Cardinality({ i \in 1..Len(eng.reviews) : WhereHolds(q, eng.reviews[i]) })

\* lines 335-351: the count of one term, asked of the engine in its k-th
\* query; -1 when that query throws.
TermCount(eng, k, q) ==
    IF QueryThrows(eng, k, q) THEN -1
    ELSE Cardinality({ i \in 1..Len(eng.reviews) : WhereHolds(q, eng.reviews[i]) })

\* A catch block that rethrows whatever the mode.
RegexCatchRethrows(callId, useRegex, sent) == Throw("engine error", sent)

\* lines 319-330: what the catch around the two combined queries does with the
\* error of the engine (an Error instance); the message of the engine follows
\* the prefix.
RegexCatch(callId, useRegex, sent) ==
    IF useRegex
    THEN Return(ToolResult("flexible_search", callId, NullResult,
                           "Invalid regex pattern"), sent)
    ELSE Throw("engine error", sent)

flexibleSearch(callId, terms, mode, limit, regex, eng) ==
    LET searchTerms == NormalizeTerms(terms)
        useRegex == regex # Absent /\ Get(regex)
        safeLimit == SafeLimit(limit, 15, 50)
        escaped == [i \in 1..Len(searchTerms) |-> EscapeQuotes(searchTerms[i])]
        where == [sql |-> "flexible_rows", terms |-> escaped, joiner |-> Joiner(mode),
                  regex |-> useRegex, limit |-> safeLimit]
        countSql == [where EXCEPT !.sql = "flexible_count", !.limit = 0]
        termSql(i) == [sql |-> "term_count", terms |-> <<escaped[i]>>, joiner |-> "AND",
                       regex |-> useRegex, limit |-> 0]
        matching == SelectSeq(RowIndexes(eng.reviews),
                              LAMBDA i : WhereHolds(where, eng.reviews[i]))
        rows == Limit(matching, safeLimit)
        termCounts == [i \in 1..Len(searchTerms) |->
                          [term |-> searchTerms[i],
                           count |-> TermCount(eng, 2 + i, termSql(i))]]
        termQueries == [i \in 1..Len(searchTerms) |-> termSql(i)]
    IN  IF searchTerms = <<>>
        THEN Return(ToolResult("flexible_search", callId, NullResult,
                               "No search terms provided"), <<>>)
        ELSE IF QueryThrows(eng, 1, where) \/ QueryThrows(eng, 2, countSql)
        THEN LET sent == IF QueryThrows(eng, 1, where) THEN <<where>> ELSE <<where, countSql>>
             IN  RegexCatch(callId, useRegex, sent)
        ELSE Return(ToolResult("flexible_search", callId,
                               [kind |-> "flexible_search",
                                terms |-> searchTerms,
                                mode |-> IF mode = Absent THEN "AND" ELSE Get(mode),
                                regex |-> useRegex,
                                total_matches |-> Len(matching),
                                matches_returned |-> Len(rows),
                                term_breakdown |-> termCounts,
                                reviews |-> ReviewExcerpts(eng.reviews, rows)],
                               NoError), <<where, countSql>> \o termQueries)

(***************************************************************************)
(* ToolExecutor.execute, lines 33-81.  Destructuring toolCall.function     *)
(* (line 34) is outside every try block: a call without a function field   *)
(* makes execute itself throw.  What a handler throws is caught (line 73)  *)
(* and becomes an error ToolResult.                                        *)
(***************************************************************************)
Dispatch(toolCall, eng) ==
    LET name == toolCall.function.name
        args == toolCall.function.arguments.fields
        id == toolCall.id
    IN  IF toolCall.function.arguments.json = "null"
           /\ name \in {"sql_query", "text_search", "flexible_search", "get_stats", "get_sample"}
        THEN Throw("TypeError", <<>>)
        ELSE CASE name = "sql_query" -> sqlQuery(id, args.query, eng)
               [] name = "text_search" -> textSearch(id, args.query, args.limit, eng)
               [] name = "flexible_search" ->
                      flexibleSearch(id, args.terms, args.mode, args.limit, args.regex, eng)
               [] name = "get_stats" -> getStats(id, args.include_rating_distribution, eng)
               [] name = "get_sample" -> getSample(id, args.count, args.rating_filter, eng)
               [] OTHER -> Return(ToolResult(name, id, NullResult, "Unknown tool"), <<>>)

\* lines 73-80: the catch around the dispatch.
CatchHandler(toolCall, outcome) ==
    IF outcome.kind = "throw"
    THEN Return(ToolResult(toolCall.function.name, toolCall.id, NullResult, outcome.message),
                outcome.queries)
    ELSE outcome

execute(toolCall, eng) ==
    IF ~toolCall.function.present
    THEN Throw("TypeError", <<>>)
    ELSE IF toolCall.function.arguments.json = "invalid"
    THEN Return(ToolResult(toolCall.function.name, toolCall.id, NullResult,
                           "Failed to parse arguments"), <<>>)
    ELSE CatchHandler(toolCall, Dispatch(toolCall, eng))


(***************************************************************************)
(* The /api/agent endpoint (api/agent.ts): the request, the environment,   *)
(* and what the handler answers.  req.body is undefined or null when the   *)
(* request carries no body, a string when it is not JSON, else an object   *)
(* whose messages field is missing, of another type, or an array.          *)
(***************************************************************************)
Request(method, body) == [method |-> method, body |-> body]
Env(apiKey, model) == [OPENROUTER_API_KEY |-> apiKey, OPENROUTER_MODEL |-> model]

NoMessages == [type |-> "undefined", list |-> <<>>]
MessagesOfType(type) == [type |-> type, list |-> <<>>]
MessagesArray(list) == [type |-> "array", list |-> list]

NoBody == [kind |-> "undefined", messages |-> NoMessages, toolResults |-> <<>>]
NullBody == [kind |-> "null", messages |-> NoMessages, toolResults |-> <<>>]
TextBody == [kind |-> "string", messages |-> NoMessages, toolResults |-> <<>>]
Body(messages, toolResults) ==
    [kind |-> "object", messages |-> messages, toolResults |-> toolResults]

Response(status, json) == [status |-> status, json |-> json]
NoJson == [type |-> "none"]
\* {error: `${error}${detail}`}: a message and what is interpolated after it.
ErrorJson(error) == [type |-> "error", error |-> error, detail |-> ""]

NoApi ==
    [pc |-> "off", request |-> Request("", NoBody), env |-> Env(Absent, Absent),
     sent |-> <<>>, upstream |-> Absent, responses |-> <<>>]

\* Every method taken for a POST but GET.
MethodNotGet(method) == method # "GET"

\* line 173
MethodAllowed(method) == method = "POST"

\* line 180: !apiKey
Configured(env) == env.OPENROUTER_API_KEY # Absent /\ Get(env.OPENROUTER_API_KEY) # ""

\* line 178
ModelOf(env) ==
    IF env.OPENROUTER_MODEL # Absent /\ Get(env.OPENROUTER_MODEL) # ""
    THEN Get(env.OPENROUTER_MODEL)
    ELSE "nvidia/nemotron-3-nano-30b-a3b:free"

\* line 185: destructuring req.body throws when there is no body.
BodyThrows(body) == body.kind \in {"undefined", "null"}

\* line 187: !messages || !Array.isArray(messages)
MessagesValid(body) == body.kind = "object" /\ body.messages.type = "array"

\* lines 192-206
ApiMessages(body) ==
    <<[role |-> "system", content |-> "SYSTEM_PROMPT"]>>
        \o body.messages.list
        \o [i \in 1..Len(body.toolResults) |->
               [role |-> "tool", content |-> body.toolResults[i].result,
                tool_call_id |-> body.toolResults[i].call_id]]

\* lines 210-224: the request to the language-model backend.
UpstreamRequest(env, body) ==
    [authorization |-> Get(env.OPENROUTER_API_KEY), model |-> ModelOf(env),
     messages |-> ApiMessages(body), tool_choice |-> "auto"]

\* lines 163-224: the handler up to its answer or to its call of the backend.
Handle(a) ==
    LET reply(response) == [a EXCEPT !.pc = "done", !.responses = Append(@, response)]
    IN  IF a.request.method = "OPTIONS" THEN reply(Response(200, NoJson))
        ELSE IF ~MethodAllowed(a.request.method)
        THEN reply(Response(405, ErrorJson("Method not allowed")))
        ELSE IF ~Configured(a.env)
        THEN reply(Response(500, ErrorJson("OpenRouter API key not configured")))
        ELSE IF BodyThrows(a.request.body)
        THEN reply(Response(500, ErrorJson("TypeError")))
        ELSE IF ~MessagesValid(a.request.body)
        THEN reply(Response(400, ErrorJson("Invalid request: messages array required")))
        ELSE [a EXCEPT !.pc = "upstream",
                       !.sent = Append(@, UpstreamRequest(a.env, a.request.body))]

\* A missing message answered as an empty one.
AnswerFromFirstChoice(data) ==
    IF data.choices = <<>>
    THEN Response(500, ErrorJson("No response from LLM"))
    ELSE Response(200, [type |-> "response", content |-> <<"No response generated">>,
                        model |-> data.model])

\* lines 234-257: the answer built from the backend's JSON.
AnswerFrom(data) ==
    IF data.choices = <<>> \/ data.choices[1].message = Absent
    THEN Response(500, ErrorJson("No response from LLM"))
    ELSE LET message == Get(data.choices[1].message)
         IN  IF Len(message.tool_calls) > 0
             THEN Response(200, [type |-> "tool_calls", tool_calls |-> message.tool_calls,
                                 message |-> message])
             ELSE Response(200, [type |-> "response",
                                 content |-> IF message.content \in {Absent, Some(<<>>)}
                                             THEN <<"No response generated">>
                                             ELSE Get(message.content),
                                 model |-> data.model])

\* An error answer that quotes the credential.
NotOkAnswerWithKey(a, reply) == Response(reply.status, ErrorJson(a.env.OPENROUTER_API_KEY))

\* An error answer that quotes the body of the backend's response.
NotOkAnswerWithBody(a, reply) ==
    Response(reply.status, [ErrorJson("OpenRouter API error: ") EXCEPT !.detail = reply.text])

\* lines 226-232: the answer to a non-2xx status of the backend; the body
\* read by response.text() is logged only.
NotOkAnswer(a, reply) ==
    Response(reply.status,
             [ErrorJson("OpenRouter API error: ") EXCEPT !.detail = reply.statusText])

\* What the backend does with the request: the fetch rejects, or it answers
\* with a non-2xx status, with a 2xx status and JSON data, or with a 2xx
\* status and a body that is not JSON.
FetchRejects ==
    [kind |-> "rejects", status |-> 0, statusText |-> "", text |-> "",
     data |-> [choices |-> <<>>, model |-> ""]]
StatusReply(status, statusText, text) ==
    [kind |-> "status", status |-> status, statusText |-> statusText, text |-> text,
     data |-> [choices |-> <<>>, model |-> ""]]
DataReply(data) ==
    [kind |-> "data", status |-> 200, statusText |-> "OK", text |-> "", data |-> data]
GarbledReply ==
    [kind |-> "garbled", status |-> 200, statusText |-> "OK", text |-> "<html>",
     data |-> [choices |-> <<>>, model |-> ""]]

\* lines 226-264: the answer of the handler to what the backend did.
Deliver(a, reply) ==
    [a EXCEPT !.pc = "done",
              !.upstream = Some(reply),
              !.responses =
                  Append(@, CASE reply.kind = "rejects" -> Response(500, ErrorJson("fetch failed"))
                              [] reply.kind = "status" -> NotOkAnswer(a, reply)
                              [] reply.kind = "garbled" ->
                                     Response(500, ErrorJson("Unexpected token"))
                              [] OTHER -> AnswerFrom(reply.data))]

(***************************************************************************)
(* The conversation controller: the useAgentChat hook (useAgentChat.ts).   *)
(*                                                                         *)
(* state     the hook's AgentState with every queued update applied        *)
(* rendered  the part of AgentState the current sendMessage closure reads  *)
(*           (state.messages and state.isLoading of the last render)       *)
(* req       the local variables of each sendMessage invocation            *)
(* exec      the harness that applies ToolExecutor.execute to one call     *)
(* api       one request to the /api/agent endpoint and its handling       *)
(***************************************************************************)
VARIABLES state, rendered, coordinator, toolExecutorRef, req, exec, api

vars == <<state, rendered, coordinator, toolExecutorRef, req, exec, api>>

maxIterations == 8

\* The number of sendMessage invocations a behaviour holds.
MaxCalls == 2

Slots == 1..MaxCalls

PlainText(text) == [text |-> text]

Message(role, content, toolResults) ==
    [role |-> role, content |-> content, toolResults |-> toolResults]

INITIAL_MESSAGE == Message("assistant", PlainText(<<"Hello!">>), <<>>)

\* An entry of conversationMessages / messagesToSend.
ApiMessage(role, content, tool_calls, tool_call_id) ==
    [role |-> role, content |-> content, tool_calls |-> tool_calls,
     tool_call_id |-> tool_call_id]

SystemHint ==
    ApiMessage("system", PlainText(<<"Do NOT call any more tools.">>), <<>>, "")

NoStep == [label |-> "", n |-> 0, tool |-> ""]
Step(label, n, tool) == [label |-> label, n |-> n, tool |-> tool]

NullError == [message |-> "null", tools |-> <<>>]
ErrorOf(message, tools) == [message |-> message, tools |-> tools]

InitialState ==
    [messages |-> <<INITIAL_MESSAGE>>, isLoading |-> FALSE, isExecutingTools |-> FALSE,
     currentStep |-> NoStep, error |-> NullError, toolsExecuted |-> <<>>]

\* The locals of an invocation that has not been made.
NoRequest ==
    [pc |-> "unused", selectedPoints |-> Absent, selectionPredicate |-> Absent,
     iteration |-> 0, conversationMessages |-> <<>>,
     allToolsExecuted |-> <<>>, tool_calls |-> <<>>, index |-> 0, toolResults |-> <<>>,
     messagesToSend |-> <<>>, fetches |-> 0, executions |-> 0,
     outcome |-> "none", thrown |-> NullError]

NoExec == [pc |-> "off", toolCall |-> ToolCallNoFunction(""),
           eng |-> [failAt |-> 0, rows |-> 0, reviews |-> <<>>],
           outcome |-> Throw("", <<>>)]

Init ==
    /\ state = InitialState
    /\ rendered = [messages |-> <<INITIAL_MESSAGE>>, isLoading |-> FALSE]
    /\ coordinator = FALSE
    /\ toolExecutorRef = FALSE
    /\ req = [p \in Slots |-> NoRequest]
    /\ exec = NoExec
    /\ api = NoApi

(***************************************************************************)
(* Pieces of sendMessage.                                                  *)
(***************************************************************************)
\* lines 90-95: the history sent to the model is rebuilt from the rendered messages.
History(messages) ==
    LET kept == SelectSeq(messages, LAMBDA m : m.role \in {"user", "assistant"})
    IN  [i \in 1..Len(kept) |-> ApiMessage(kept[i].role, kept[i].content, <<>>, "")]

(***************************************************************************)
(* The selection context, lines 97-196.  A selected point carries a rating *)
(* (a number, a value of another type, or none) and a description, which   *)
(* is modelled by its identity and its length; selectedPoints is the array *)
(* of points with the totalCount the App attaches to it.                   *)
(***************************************************************************)
MAX_CONTEXT_CHARS == 48000
HEADER_RESERVE == 500

Number(n) == [type |-> "number", value |-> n]
BigInt(n) == [type |-> "bigint", value |-> n]
Description(id, length) == [id |-> id, length |-> length]
NoDescription == Description("No description", 14)

Point(rating, description, text) ==
    [fields |-> [Rating |-> rating, description |-> description], text |-> text]

SelectedPoints(points, totalCount) == [points |-> points, totalCount |-> totalCount]

RECURSIVE Digits(_)
Digits(n) == IF n < 10 THEN 1 ELSE 1 + Digits(n \div 10)

\* line 116: p.fields?.Rating ?? 'N/A', as the template prints it.
RatingText(p) ==
    IF p.fields.Rating = Absent
    THEN [text |-> "N/A", length |-> 3]
    ELSE [text |-> Get(p.fields.Rating).value, length |-> Digits(Get(p.fields.Rating).value)]

\* line 117: p.fields?.description ?? p.text ?? 'No description'
DescriptionOf(p) ==
    IF p.fields.description # Absent THEN Get(p.fields.description)
    ELSE IF p.text # Absent THEN Get(p.text)
    ELSE NoDescription

\* line 119: `[Review ${i + 1}] Rating: ${rating}★\n${description}`, i from 1 here.
ReviewText(i, p) ==
    [index |-> i, rating |-> RatingText(p).text, description |-> DescriptionOf(p),
     length |-> 8 + Digits(i) + 10 + RatingText(p).length + 1 + 1 + DescriptionOf(p).length]

\* A loop that counts the reviews without the allowance for the separator.
RECURSIVE ReviewsIncludedWithoutAllowance(_, _, _)
ReviewsIncludedWithoutAllowance(points, i, totalChars) ==
    IF i > Len(points) THEN i - 1
    ELSE IF totalChars + ReviewText(i, points[i]).length > MAX_CONTEXT_CHARS - HEADER_RESERVE
    THEN i - 1
    ELSE ReviewsIncludedWithoutAllowance(points, i + 1,
                                         totalChars + ReviewText(i, points[i]).length)

\* lines 114-130: the number of reviews the loop includes, from point i on.
RECURSIVE ReviewsIncluded(_, _, _)
ReviewsIncluded(points, i, totalChars) ==
    IF i > Len(points) THEN i - 1
    ELSE IF totalChars + ReviewText(i, points[i]).length + 4 > MAX_CONTEXT_CHARS - HEADER_RESERVE
    THEN i - 1
    ELSE ReviewsIncluded(points, i + 1, totalChars + ReviewText(i, points[i]).length + 4)

\* Every selected point taken for the statistics.
AllPoints(points, reviewsIncluded) == points

\* line 135
IncludedPoints(points, reviewsIncluded) == SubSeq(points, 1, reviewsIncluded)

\* lines 136-138: the ratings that are numbers.
NumericRatings(includedPoints) ==
    LET numeric == SelectSeq(includedPoints,
                             LAMBDA p : p.fields.Rating # Absent
                                        /\ Get(p.fields.Rating).type = "number")
    IN  [i \in 1..Len(numeric) |-> Get(numeric[i].fields.Rating).value]

RECURSIVE Sum(_)
Sum(ratings) == IF ratings = <<>> THEN 0 ELSE Head(ratings) + Sum(Tail(ratings))

\* lines 140-142: the mean printed by toFixed(2), held in hundredths.
AvgRating(ratings) ==
    IF Len(ratings) > 0
    THEN [hundredths |-> (200 * Sum(ratings) + Len(ratings)) \div (2 * Len(ratings))]
    ELSE [text |-> "N/A"]

\* lines 144-152: the count of each rating, highest rating first.
RECURSIVE DistributionOf(_, _)
DistributionOf(keys, ratings) ==
    IF keys = {} THEN <<>>
    ELSE LET top == CHOOSE k \in keys : \A j \in keys : j <= k
         IN  <<[rating |-> top,
                count |-> Cardinality({ i \in 1..Len(ratings) : ratings[i] = top })]>>
             \o DistributionOf(keys \ {top}, ratings)

DistributionText(ratings) ==
    DistributionOf({ ratings[i] : i \in 1..Len(ratings) }, ratings)

\* line 102: (selectedPoints as any).totalCount || selectedPoints.length
TotalSelected(selectedPoints) ==
    IF selectedPoints.totalCount # Absent /\ Get(selectedPoints.totalCount) # 0
    THEN Get(selectedPoints.totalCount)
    ELSE Len(selectedPoints.points)

\* truthiness of the selectionPredicate argument (string | null | undefined)
HasPredicate(selectionPredicate) ==
    selectionPredicate # Absent /\ Get(selectionPredicate) # <<>>

\* lines 102-189
SelectionContext(selectedPoints, selectionPredicate) ==
    LET points == selectedPoints.points
        totalSelected == TotalSelected(selectedPoints)
        reviewsIncluded == ReviewsIncluded(points, 1, 0)
        ratings == NumericRatings(IncludedPoints(points, reviewsIncluded))
    IN  [totalSelected |-> totalSelected,
         reviewsIncluded |-> reviewsIncluded,
         avgRating |-> AvgRating(ratings),
         distributionText |-> DistributionText(ratings),
         truncatedNote |-> IF reviewsIncluded < totalSelected
                           THEN Some([showing |-> reviewsIncluded, of |-> totalSelected])
                           ELSE Absent,
         predicateInfo |-> IF HasPredicate(selectionPredicate)
                           THEN selectionPredicate ELSE Absent,
         example |-> IF HasPredicate(selectionPredicate)
                     THEN Get(selectionPredicate) ELSE <<"[","p","r","e","d","i","c","a","t","e","]">>,
         reviewsList |-> [i \in 1..reviewsIncluded |-> ReviewText(i, points[i])]]

\* lines 95-196: the content of the user message sent to the model.
UserContent(userMessage, selectedPoints, selectionPredicate) ==
    IF selectedPoints # Absent /\ Len(Get(selectedPoints).points) > 0
    THEN [selection |-> SelectionContext(Get(selectedPoints), selectionPredicate),
          text |-> userMessage]
    ELSE PlainText(userMessage)

\* line 202
LoopContinues(iteration) == iteration < maxIterations

\* The hint on every iteration from the last but one on.
NeedsHintFromThere(iteration) == iteration >= maxIterations - 1

\* line 213
NeedsHint(iteration) == iteration = maxIterations - 1

\* lines 212-222
\* A payload that leaves out the oldest message once there are more than two.
MessagesToSendRecent(conversationMessages, iteration) ==
    IF Len(conversationMessages) > 2 THEN Tail(conversationMessages)
    ELSE conversationMessages

MessagesToSend(conversationMessages, iteration) ==
    IF NeedsHint(iteration)
    THEN Append(conversationMessages, SystemHint)
    ELSE conversationMessages

\* line 208
StepLabel(iteration) ==
    IF iteration = 1 THEN Step("Thinking...", 0, "") ELSE Step("Processing...", iteration, "")

\* The names joined as they are.
KeepAll(names) == names

\* [...new Set(allToolsExecuted)], line 305: the names in order of first occurrence.
RECURSIVE Distinct(_)
Distinct(names) ==
    IF names = <<>> THEN <<>>
    ELSE LET init == SubSeq(names, 1, Len(names) - 1)
             last == names[Len(names)]
         IN  IF \E i \in 1..Len(init) : init[i] = last
             THEN Distinct(init)
             ELSE Append(Distinct(init), last)

\* lines 304-307
LimitError(allToolsExecuted) ==
    ErrorOf("Analysis reached the limit of steps", Distinct(allToolsExecuted))

\* line 248: toolCall.function?.name || 'unknown'
ToolName(toolCall) ==
    IF toolCall.function.present /\ toolCall.function.name # ""
    THEN toolCall.function.name
    ELSE "unknown"

\* A tool message that always carries the result payload.
ToolContentResultOnly(result) == [json |-> "result", value |-> result.result, error |-> ""]

\* line 274: JSON.stringify(result.result || result.error)
ToolContent(result) ==
    IF result.result # NullResult
    THEN [json |-> "result", value |-> result.result, error |-> ""]
    ELSE [json |-> "error", value |-> NullResult, error |-> result.error]

\* The results appended last to first.
ToolMessagesReversed(toolResults) ==
    [i \in 1..Len(toolResults) |->
        ApiMessage("tool", ToolContent(toolResults[Len(toolResults) + 1 - i]), <<>>,
                   toolResults[Len(toolResults) + 1 - i].call_id)]

\* lines 271-277
ToolMessages(toolResults) ==
    [i \in 1..Len(toolResults) |->
        ApiMessage("tool", ToolContent(toolResults[i]), <<>>, toolResults[i].call_id)]

\* A batch appended without the result of its last call.
AppendBatchPartial(conversationMessages, tool_calls, toolResults) ==
    Append(conversationMessages, ApiMessage("assistant", PlainText(<<>>), tool_calls, ""))
        \o SubSeq(ToolMessages(toolResults), 1, Len(toolResults) - 1)

\* lines 264-277
AppendBatch(conversationMessages, tool_calls, toolResults) ==
    Append(conversationMessages, ApiMessage("assistant", PlainText(<<>>), tool_calls, ""))
        \o ToolMessages(toolResults)

\* What is left of an invocation once it has returned.
Returned(r, outcome, thrown) ==
    [NoRequest EXCEPT !.pc = "returned", !.outcome = outcome, !.thrown = thrown]

\* A catch block that leaves the request loading and records no error.
CatchWithoutReset(p, r, s, thrown) ==
    /\ req' = [req EXCEPT ![p] = Returned(r, "failed", thrown)]
    /\ state' = [s EXCEPT !.messages = Append(@, Message("assistant", [notice |-> thrown], <<>>))]

\* lines 309-324: the catch block, from the locals r and the state s.
Catch(p, r, s, thrown) ==
    /\ req' = [req EXCEPT ![p] = Returned(r, "failed", thrown)]
    /\ state' = [s EXCEPT !.isLoading = FALSE, !.isExecutingTools = FALSE,
                          !.currentStep = NoStep, !.error = thrown,
                          !.messages = Append(@, Message("assistant", [notice |-> thrown], <<>>))]

\* lines 202-228: the loop test, and one iteration up to the fetch.
EnterLoop(p, r, s) ==
    IF LoopContinues(r.iteration)
    THEN /\ req' = [req EXCEPT ![p] =
                      [r EXCEPT !.pc = "fetch", !.iteration = r.iteration + 1,
                                !.messagesToSend =
                                    MessagesToSend(r.conversationMessages, r.iteration + 1),
                                !.fetches = @ + 1]]
         /\ state' = [s EXCEPT !.currentStep = StepLabel(r.iteration + 1)]
    ELSE Catch(p, r, s, LimitError(r.allToolsExecuted))

\* lines 247-257: one tool call of the batch, up to the await of execute.
StartTool(p, r, s) ==
    LET toolName == ToolName(r.tool_calls[r.index])
        names == Append(r.allToolsExecuted, toolName)
    IN  /\ req' = [req EXCEPT ![p] = [r EXCEPT !.pc = "exec", !.allToolsExecuted = names,
                                                !.executions = @ + 1]]
        /\ state' = [s EXCEPT !.currentStep = Step("Running", 0, toolName),
                              !.toolsExecuted = names]


(***************************************************************************)
(* The actions of the hook.                                                *)
(***************************************************************************)
UserMessages == { <<"h","i">>, <<" ">>, <<>> }

\* The invocation slot the next sendMessage call runs in.
NextSlot(p) == req[p].pc = "unused" /\ \A q \in Slots : q < p => req[q].pc # "unused"

\* line 68: the guard reads the isLoading of the render the callback was made in.
Busy == rendered.isLoading

\* App: the coordinator becomes available once the data has loaded.
CoordinatorReady ==
    /\ ~coordinator
    /\ coordinator' = TRUE
    /\ UNCHANGED <<state, rendered, toolExecutorRef, req, exec, api>>

\* A render of the hook: lines 41-55, and the useCallback of line 325.
Render ==
    /\ \/ rendered # [messages |-> state.messages, isLoading |-> state.isLoading]
       \/ (coordinator /\ ~toolExecutorRef)
    /\ rendered' = [messages |-> state.messages, isLoading |-> state.isLoading]
    /\ toolExecutorRef' = (toolExecutorRef \/ coordinator)
    /\ UNCHANGED <<state, coordinator, req, exec, api>>

\* line 68: an empty message, or a request in flight as far as the closure knows.
SendMessageIgnored(userMessage) ==
    /\ Trim(userMessage) = <<>> \/ Busy
    /\ UNCHANGED vars

\* lines 69-75
SendMessageNotReady(userMessage) ==
    /\ ~(Trim(userMessage) = <<>> \/ Busy)
    /\ ~toolExecutorRef
    /\ state' = [state EXCEPT !.error = ErrorOf("Database not ready", <<>>)]
    /\ UNCHANGED <<rendered, coordinator, toolExecutorRef, req, exec, api>>

\* lines 60-228: an accepted call sendMessage(userMessage, selectedPoints,
\* selectionPredicate), up to its first fetch.
SendMessageWith(p, userMessage, selectedPoints, selectionPredicate) ==
    /\ NextSlot(p)
    /\ ~(Trim(userMessage) = <<>> \/ Busy)
    /\ toolExecutorRef
    /\ LET userMsg == Message("user", PlainText(userMessage), <<>>)
           s == [state EXCEPT !.messages = Append(@, userMsg), !.isLoading = TRUE,
                              !.error = NullError,
                              !.currentStep = Step("Thinking...", 0, ""),
                              !.toolsExecuted = <<>>]
           content == UserContent(userMessage, selectedPoints, selectionPredicate)
           r == [NoRequest EXCEPT !.selectedPoints = selectedPoints,
                                  !.selectionPredicate = selectionPredicate,
                                  !.conversationMessages =
                                      Append(History(rendered.messages),
                                             ApiMessage("user", content, <<>>, ""))]
       IN  EnterLoop(p, r, s)
    /\ UNCHANGED <<rendered, coordinator, toolExecutorRef, exec, api>>

\* sendMessage(userMessage): a call without a selection.
SendMessage(p, userMessage) == SendMessageWith(p, userMessage, Absent, Absent)

\* line 224: fetch rejects (a network failure).
FetchFails(p) ==
    /\ req[p].pc = "fetch"
    /\ Catch(p, req[p], state, ErrorOf("Failed to fetch", <<>>))
    /\ UNCHANGED <<rendered, coordinator, toolExecutorRef, exec, api>>

\* lines 230-233: a non-2xx answer of the endpoint.
FetchNotOk(p) ==
    /\ req[p].pc = "fetch"
    /\ Catch(p, req[p], state, ErrorOf("Request failed", <<>>))
    /\ UNCHANGED <<rendered, coordinator, toolExecutorRef, exec, api>>

\* lines 238-257: the answer carries tool calls.
FetchToolCalls(p, tool_calls) ==
    /\ req[p].pc = "fetch"
    /\ Len(tool_calls) > 0
    /\ StartTool(p,
                 [req[p] EXCEPT !.tool_calls = tool_calls, !.index = 1, !.toolResults = <<>>],
                 [state EXCEPT !.isExecutingTools = TRUE,
                               !.currentStep = Step("Executing", Len(tool_calls), "")])
    /\ UNCHANGED <<rendered, coordinator, toolExecutorRef, exec, api>>

\* A final update that leaves the step indicator as it is.
FinalUpdateKeepsStep(s, assistantMsg, allToolsExecuted) ==
    [s EXCEPT !.messages = Append(@, assistantMsg),
              !.isLoading = FALSE, !.isExecutingTools = FALSE,
              !.toolsExecuted = allToolsExecuted]

\* lines 291-298: the setState of the final answer.
FinalUpdate(s, assistantMsg, allToolsExecuted) ==
    [s EXCEPT !.messages = Append(@, assistantMsg),
              !.isLoading = FALSE, !.isExecutingTools = FALSE,
              !.currentStep = NoStep,
              !.toolsExecuted = allToolsExecuted]

\* lines 283-300: the final answer (content: the text, or {} when there is none).
FetchFinal(p, content) ==
    /\ req[p].pc = "fetch"
    /\ LET r == req[p]
           text == IF content = Absent THEN <<"I apologize">> ELSE Get(content)
           assistantMsg == Message("assistant", PlainText(text), r.allToolsExecuted)
       IN  /\ state' = FinalUpdate(state, assistantMsg, r.allToolsExecuted)
           /\ req' = [req EXCEPT ![p] = Returned(r, "answered", NullError)]
    /\ UNCHANGED <<rendered, coordinator, toolExecutorRef, exec, api>>

\* lines 257-281: execute returns (or throws) for the call in hand.
ToolReturns(p, eng) ==
    /\ req[p].pc = "exec"
    /\ LET r == req[p]
           out == execute(r.tool_calls[r.index], eng)
           results == Append(r.toolResults, out.value)
       IN  IF out.kind = "throw"
           THEN Catch(p, r, state, ErrorOf(out.message, <<>>))
           ELSE IF r.index < Len(r.tool_calls)
           THEN StartTool(p, [r EXCEPT !.toolResults = results, !.index = @ + 1], state)
           ELSE EnterLoop(p,
                          [r EXCEPT !.toolResults = results,
                                    !.conversationMessages =
                                        AppendBatch(@, r.tool_calls, results)],
                          state)
    /\ UNCHANGED <<rendered, coordinator, toolExecutorRef, exec, api>>

\* lines 330-339
clearChat ==
    /\ state # InitialState
    /\ state' = InitialState
    /\ UNCHANGED <<rendered, coordinator, toolExecutorRef, req, exec, api>>

(***************************************************************************)
(* The harness of ToolExecutor.execute: one call, one engine, one result.  *)
(***************************************************************************)
Execute ==
    /\ exec.pc = "ready"
    /\ exec' = [exec EXCEPT !.pc = "done", !.outcome = execute(exec.toolCall, exec.eng)]
    /\ UNCHANGED <<state, rendered, coordinator, toolExecutorRef, req, api>>

(***************************************************************************)
(* The actions of the /api/agent endpoint.                                 *)
(***************************************************************************)
\* lines 163-224
handler ==
    /\ api.pc = "received"
    /\ api' = Handle(api)
    /\ UNCHANGED <<state, rendered, coordinator, toolExecutorRef, req, exec>>

\* line 210: the call of the backend rejects; lines 259-264 answer 500.
UpstreamRejects ==
    /\ api.pc = "upstream"
    /\ api' = Deliver(api, FetchRejects)
    /\ UNCHANGED <<state, rendered, coordinator, toolExecutorRef, req, exec>>

\* lines 226-232: the backend answers with a non-2xx status.
UpstreamNotOk(failure, text) ==
    /\ api.pc = "upstream"
    /\ api' = Deliver(api, StatusReply(failure.status, failure.statusText, text))
    /\ UNCHANGED <<state, rendered, coordinator, toolExecutorRef, req, exec>>

\* lines 234-257: the backend answers 2xx with the JSON data.
UpstreamResponds(data) ==
    /\ api.pc = "upstream"
    /\ api' = Deliver(api, DataReply(data))
    /\ UNCHANGED <<state, rendered, coordinator, toolExecutorRef, req, exec>>

\* line 234: the backend answers 2xx with a body response.json() cannot
\* parse; lines 259-264 answer 500.
UpstreamGarbled ==
    /\ api.pc = "upstream"
    /\ api' = Deliver(api, GarbledReply)
    /\ UNCHANGED <<state, rendered, coordinator, toolExecutorRef, req, exec>>

(***************************************************************************)
(* What the model answers in the specifications below.                     *)
(***************************************************************************)
Fields(name, value) ==
    IF name = "query" THEN [NoFields EXCEPT !.query = value] ELSE NoFields

CallStats(id) == ToolCall(id, "get_stats", ArgsObject(NoFields))
CallDrop(id) ==
    ToolCall(id, "sql_query", ArgsObject(Fields("query", Some(<<"D","R","O","P">>))))

CallBogus(id) == ToolCall(id, "bogus", ArgsNull)

EngineOk == [failAt |-> 0, rows |-> 1, reviews |-> <<>>]
EngineDown == [failAt |-> 1, rows |-> 0, reviews |-> <<>>]

AnswerText == Some(<<"4",".","1","2">>)

Batches == { <<CallStats("a"), CallDrop("b")>>, <<ToolCallNoFunction("a")>> }

(***************************************************************************)
(* Spec: the hook under any caller and any schedule of renders; the model  *)
(* answers with a final text or a batch of Batches, or the endpoint fails. *)
(***************************************************************************)
Next ==
    \/ CoordinatorReady
    \/ Render
    \/ clearChat
    \/ \E userMessage \in UserMessages : SendMessageIgnored(userMessage)
    \/ \E userMessage \in UserMessages : SendMessageNotReady(userMessage)
    \/ \E p \in Slots, userMessage \in UserMessages : SendMessage(p, userMessage)
    \/ \E p \in Slots : FetchFails(p)
    \/ \E p \in Slots : FetchNotOk(p)
    \/ \E p \in Slots, tool_calls \in Batches : FetchToolCalls(p, tool_calls)
    \/ \E p \in Slots : FetchFinal(p, AnswerText)
    \/ \E p \in Slots : ToolReturns(p, EngineOk)

Spec == Init /\ [][Next]_vars

(***************************************************************************)
(* SpecLoop: one sendMessage call on a hook whose executor is ready, under *)
(* every sequence of answers: a final text (or none), a batch of           *)
(* LoopBatches, an endpoint failure; the engine may fail under any call.   *)
(***************************************************************************)
LoopBatches ==
    { <<CallStats("a")>>,
      <<CallDrop("a"), CallBogus("b")>>,
      <<CallStats("a"), ToolCallNoFunction("b")>> }

InitLoop ==
    /\ state = InitialState
    /\ rendered = [messages |-> <<INITIAL_MESSAGE>>, isLoading |-> FALSE]
    /\ coordinator = TRUE
    /\ toolExecutorRef = TRUE
    /\ req = [p \in Slots |-> NoRequest]
    /\ exec = NoExec
    /\ api = NoApi

NextLoop ==
    \/ Render
    \/ \E userMessage \in UserMessages : SendMessage(1, userMessage)
    \/ FetchFails(1)
    \/ FetchNotOk(1)
    \/ \E tool_calls \in LoopBatches : FetchToolCalls(1, tool_calls)
    \/ \E content \in {AnswerText, Absent} : FetchFinal(1, content)
    \/ \E eng \in {EngineOk, EngineDown} : ToolReturns(1, eng)

SpecLoop == InitLoop /\ [][NextLoop]_vars

(***************************************************************************)
(* SpecSession: a conversation of up to MaxCalls requests made one after   *)
(* the other from the rendered interface (the input is disabled while a    *)
(* request is loading), with clearChat at any moment.  The model answers   *)
(* with a final text or with a regex search whose pattern the engine       *)
(* rejects, or the endpoint fails.  SpecSessionLive adds that every model  *)
(* call is answered and every tool execution returns.                      *)
(***************************************************************************)
CallBadRegex(id) ==
    ToolCall(id, "flexible_search",
             ArgsObject([NoFields EXCEPT !.terms = TermsArray(<< <<"(">> >>),
                                         !.regex = Some(TRUE)]))

SessionBatches == { <<CallBadRegex("a")>> }

\* The interface shows the current state and no request is under way.
Settled ==
    /\ rendered = [messages |-> state.messages, isLoading |-> state.isLoading]
    /\ \A q \in Slots : req[q].pc \notin {"fetch", "exec"}

ModelAnswers(p) ==
    \/ FetchNotOk(p)
    \/ \E tool_calls \in SessionBatches : FetchToolCalls(p, tool_calls)
    \/ FetchFinal(p, AnswerText)

NextSession ==
    \/ Render
    \/ clearChat
    \/ \E p \in Slots : Settled /\ SendMessage(p, <<"h","i">>)
    \/ \E p \in Slots : ModelAnswers(p)
    \/ \E p \in Slots : ToolReturns(p, EngineOk)

SpecSession == InitLoop /\ [][NextSession]_vars

\* line 257: await toolExecutor.execute(...) settles: no request waits for a
\* tool for ever.
ToolExecutionReturns(p) == []<>(req[p].pc # "exec")

\* Every model call is answered and every tool execution returns.
SessionFairness ==
    \A p \in Slots : WF_vars(ModelAnswers(p)) /\ ToolExecutionReturns(p)

SpecSessionLive == SpecSession /\ SessionFairness

(***************************************************************************)
(* SpecContext: one sendMessage call with a selection of up to MaxPoints   *)
(* points, with or without a predicate and a total count; the descriptions *)
(* are sized around the budget MAX_CONTEXT_CHARS - HEADER_RESERVE.         *)
(***************************************************************************)
MaxPoints == 3

PointKinds ==
    { Point(Some(Number(5)), Some(Description("d1", 10)), Absent),
      Point(Some(Number(2)), Some(Description("d2", 23725)), Absent),
      Point(Some(Number(4)), Some(Description("d3", 28477)), Absent),
      Point(Some(Number(1)), Some(Description("d5", 47475)), Absent),
      Point(Some(BigInt(3)), Absent, Some(Description("t6", 23725))),
      Point(Absent, Absent, Absent) }

RECURSIVE PointLists(_)
PointLists(n) ==
    IF n = 0 THEN { <<>> }
    ELSE PointLists(n - 1)
         \cup { Append(points, p) : points \in { l \in PointLists(n - 1) : Len(l) = n - 1 },
                                   p \in PointKinds }

\* The totalCount the App attaches: none, the count of a larger selection,
\* or 0 (to an array of at most one point).
Selections ==
    { Absent }
    \cup { Some(SelectedPoints(points, totalCount)) :
              points \in PointLists(MaxPoints), totalCount \in {Absent, Some(600)} }
    \cup { Some(SelectedPoints(points, Some(0))) : points \in PointLists(1) }

Predicates == { Absent, Some(<<>>), Some(<<"R","a","t","i","n","g"," ","=", " ","'","5","'">>) }

NextContext ==
    \/ Render
    \/ \E selectedPoints \in Selections, selectionPredicate \in Predicates :
           SendMessageWith(1, <<"h","i">>, selectedPoints, selectionPredicate)
    \/ FetchNotOk(1)
    \/ FetchFinal(1, AnswerText)

SpecContext == InitLoop /\ [][NextContext]_vars

(***************************************************************************)
(* SpecApi: one request to /api/agent, of any method, with or without the  *)
(* credential, with any body of Bodies, and any behaviour of the backend.  *)
(***************************************************************************)
Methods == { "OPTIONS", "GET", "POST", "PUT" }
ApiKeys == { Absent, Some(""), Some("sk-or"), Some("sk-2") }
Models == { Absent, Some("m") }

UserApiMessage == [role |-> "user", content |-> <<"h","i">>]

Bodies ==
    { NoBody, NullBody, TextBody,
      Body(NoMessages, <<>>),
      Body(MessagesOfType("string"), <<>>),
      Body(MessagesOfType("object"), <<>>),
      Body(MessagesArray(<<>>), <<>>),
      Body(MessagesArray(<<UserApiMessage>>), <<>>),
      Body(MessagesArray(<<UserApiMessage>>), <<[call_id |-> "a", result |-> "r"]>>) }

\* The non-2xx status lines of the backend (HTTP/2 carries no status text)
\* and the bodies that come with them.
UpstreamFailures ==
    { [status |-> 401, statusText |-> "Unauthorized"],
      [status |-> 429, statusText |-> "Too Many Requests"],
      [status |-> 500, statusText |-> ""] }

UpstreamErrorTexts == { "", "{\"error\":{\"message\":\"No auth credentials found\"}}" }

UpstreamData ==
    { [choices |-> <<>>, model |-> "m"],
      [choices |-> <<[message |-> Absent]>>, model |-> "m"],
      [choices |-> <<[message |-> Some([content |-> AnswerText, tool_calls |-> <<>>])]>>,
       model |-> "m"],
      [choices |-> <<[message |-> Some([content |-> Absent, tool_calls |-> <<>>])]>>,
       model |-> "m"],
      [choices |-> <<[message |-> Some([content |-> Some(<<>>), tool_calls |-> <<>>])]>>,
       model |-> "m"],
      [choices |-> <<[message |-> Some([content |-> AnswerText,
                                        tool_calls |-> <<CallStats("a"), CallStats("b")>>])]>>,
       model |-> "m"],
      [choices |-> <<[message |-> Some([content |-> Absent,
                                        tool_calls |-> <<CallStats("a")>>])]>>,
       model |-> "m"] }

InitApi ==
    /\ state = InitialState
    /\ rendered = [messages |-> <<INITIAL_MESSAGE>>, isLoading |-> FALSE]
    /\ coordinator = TRUE
    /\ toolExecutorRef = TRUE
    /\ req = [p \in Slots |-> NoRequest]
    /\ exec = NoExec
    /\ \E method \in Methods, body \in Bodies, apiKey \in ApiKeys, model \in Models :
           api = [NoApi EXCEPT !.pc = "received", !.request = Request(method, body),
                               !.env = Env(apiKey, model)]

NextApi ==
    \/ handler
    \/ UpstreamRejects
    \/ \E failure \in UpstreamFailures, text \in UpstreamErrorTexts :
           UpstreamNotOk(failure, text)
    \/ \E data \in UpstreamData : UpstreamResponds(data)
    \/ UpstreamGarbled

SpecApi == InitApi /\ [][NextApi]_vars

(***************************************************************************)
(* SpecExec: ToolExecutor.execute applied to every call of ExecCalls       *)
(* under every engine of ExecEngines.                                      *)
(***************************************************************************)
Pads == { <<>>, <<" ">>, <<"\n", " ">> }
Words ==
    { <<"S","E","L","E","C","T">>, <<"s","e","l","e","c","t">>, <<"S","e","l","e","c","T">>,
      <<"S","E","L","E","C">>, <<"x","S","E","L","E","C","T">>, <<"D","R","O","P">>,
      <<"W","I","T","H">>, <<>> }
Rests ==
    { <<>>, <<" ","1">>, <<" ","d","r","o","p">>, <<" ","s","e","l","e","c","t"," ">>,
      <<" ","u","p","d","a","t","e","_","c">>, <<" ","'","C","r","e","a","t","e","'">> }

Queries == { pad \o word \o rest : pad \in Pads, word \in Words, rest \in Rests }

ToolNames ==
    { "sql_query", "text_search", "flexible_search", "get_stats", "get_sample", "bogus", "" }

\* The limits, counts and rating filters the model supplies.
Limits == { Absent, Some(-5), Some(0), Some(1), Some(2), Some(50), Some(51), Some(1000000) }
RatingFilters == { Absent, Some(-1), Some(0), Some(1), Some(5), Some(6) }

TermLists ==
    { TermsArray(<< <<"a">>, <<"b","'">> >>),
      TermsArray(<< <<"a","_","c">> >>),
      TermsArray(<< <<" ","B"," ">>, <<"c">>, <<>> >>),
      TermsString(<<"a"," ","a","n","d"," ","c",",","b">>),
      TermsString(<<"a"," "," ","o","R"," ","b",";",";"," ","c"," ">>),
      TermsString(<<"x"," ","A","N","D","y">>),
      TermsString(<<" ",","," ",";">>),
      TermsArray(<< <<" ">>, <<>> >>) }

ExecFields ==
    { NoFields,
      [NoFields EXCEPT !.terms = TermsArray(<< <<"(">> >>), !.regex = Some(TRUE)],
      [NoFields EXCEPT !.terms = TermsArray(<< <<"b">> >>), !.regex = Some(TRUE)] }
    \cup { Fields("query", Some(q)) : q \in Queries }
    \cup { [NoFields EXCEPT !.terms = terms, !.mode = mode] :
               terms \in TermLists, mode \in {Absent, Some("AND"), Some("OR"), Some("and")} }
    \cup { [NoFields EXCEPT !.query = Some(<<"b">>), !.terms = TermsArray(<< <<"b">> >>),
                             !.limit = limit, !.count = limit, !.rating_filter = rating] :
               limit \in Limits, rating \in RatingFilters }

ExecArgs == { ArgsInvalid, ArgsNull } \cup { ArgsObject(f) : f \in ExecFields }

ExecCalls ==
    { ToolCallNoFunction("c") }
    \cup { ToolCall("c", name, args) : name \in ToolNames, args \in ExecArgs }

MaxEngineQueries == 3
\* The reviews tables of the model.
ExecReviews ==
    { <<>>,
      << Review(<<"a","b","c">>, 5), Review(<<"A"," ","b","'","s">>, 1),
         Review(<<"B","c">>, 5) >> }

ExecEngines ==
    [failAt : 0..MaxEngineQueries, rows : {0, 1, RowCap + 1}, reviews : ExecReviews]

InitExec ==
    /\ state = InitialState
    /\ rendered = [messages |-> <<INITIAL_MESSAGE>>, isLoading |-> FALSE]
    /\ coordinator = TRUE
    /\ toolExecutorRef = TRUE
    /\ req = [p \in Slots |-> NoRequest]
    /\ \E toolCall \in ExecCalls, eng \in ExecEngines :
           exec = [NoExec EXCEPT !.pc = "ready", !.toolCall = toolCall, !.eng = eng]
    /\ api = NoApi

NextExec == Execute

SpecExec == InitExec /\ [][NextExec]_vars


(***************************************************************************)
(* Properties.                                                             *)
(***************************************************************************)
Range(seq) == { seq[i] : i \in 1..Len(seq) }
Running(p) == req[p].pc \in {"fetch", "exec"}
EndpointFailures == {"Failed to fetch", "Request failed"}
LimitMessage == "Analysis reached the limit of steps"

\* C1: every accepted request makes at most 8 model invocations and then ends
\* with a final answer or with the iteration-limit error, whatever the model
\* answers (endpoint failures apart).
C1_EndsByAnswerOrLimit ==
    \A p \in Slots :
        /\ req[p].fetches <= maxIterations
        /\ (req[p].pc = "returned" /\ req[p].thrown.message \notin EndpointFailures)
              => (req[p].outcome = "answered" \/ req[p].thrown.message = LimitMessage)

\* The part of C1 the code keeps: never more than 8 model invocations per request.
C1_AtMostEightInvocations ==
    \A p \in Slots : req[p].fetches <= maxIterations /\ req[p].fetches = req[p].iteration

\* C2: at most one agent loop runs per conversation, under every interleaving
\* of sendMessage calls, state updates and renders.
C2_AtMostOneLoop == Cardinality({ p \in Slots : Running(p) }) <= 1

\* C3: when a model invocation is made, every batch of tool calls received so
\* far stands in the messages as one assistant message echoing the calls,
\* followed by exactly one tool message per call, whose tool_call_id is the id
\* of exactly one call of the batch; the last batch received is among them.
IsBatch(m) == m.role = "assistant" /\ m.tool_calls # <<>>

BatchResolved(c, k) ==
    LET calls == c[k].tool_calls
        n == Len(calls)
    IN  /\ k + n <= Len(c)
        /\ \A i \in 1..n :
              /\ c[k + i].role = "tool"
              /\ Cardinality({ j \in 1..n : calls[j].id = c[k + i].tool_call_id }) = 1
        /\ \A j \in 1..n :
              Cardinality({ i \in 1..n : c[k + i].tool_call_id = calls[j].id }) = 1
        /\ (k + n + 1 <= Len(c) => c[k + n + 1].role # "tool")

ToolMessageOwned(c, k) ==
    \E b \in 1..(k - 1) : IsBatch(c[b]) /\ k - b <= Len(c[b].tool_calls)

C3_BatchesResolvedBeforeInvocation ==
    \A p \in Slots :
        req[p].pc = "fetch" =>
            LET c == req[p].messagesToSend
                batches == { k \in 1..Len(c) : IsBatch(c[k]) }
            IN  /\ \A k \in batches : BatchResolved(c, k)
                /\ \A k \in 1..Len(c) : c[k].role = "tool" => ToolMessageOwned(c, k)
                /\ Cardinality(batches) = req[p].iteration - 1
                /\ req[p].iteration > 1 =>
                      \E k \in batches :
                          /\ c[k].tool_calls = req[p].tool_calls
                          /\ \A l \in batches : l <= k

C3_Witness ==
    \E p \in Slots :
        /\ req[p].pc = "fetch"
        /\ req[p].iteration >= 3
        /\ Len(req[p].tool_calls) = 2

\* C4: the calls of a batch are executed one at a time in the order the model
\* returned them, and their results are appended in that same order.
C4_SequentialInOrder ==
    \A p \in Slots :
        LET r == req[p]
            n == Len(r.tool_calls)
            c == r.conversationMessages
        IN  /\ r.pc = "exec" =>
                  /\ r.index \in 1..n
                  /\ Len(r.toolResults) = r.index - 1
                  /\ \A j \in 1..(r.index - 1) : r.toolResults[j].call_id = r.tool_calls[j].id
                  /\ \A j \in 1..r.index :
                        r.allToolsExecuted[Len(r.allToolsExecuted) - r.index + j]
                            = ToolName(r.tool_calls[j])
            /\ (r.pc = "fetch" /\ r.iteration > 1) =>
                  /\ Len(c) > n
                  /\ \A i \in 1..n : c[Len(c) - n + i].tool_call_id = r.tool_calls[i].id

C4_Witness ==
    \E p \in Slots :
        /\ req[p].pc = "fetch"
        /\ req[p].iteration > 1
        /\ Len(req[p].tool_calls) = 2
        /\ req[p].tool_calls[1].id # req[p].tool_calls[2].id

\* C5: ToolExecutor.execute never raises, whatever tool call the model returns.
C5_ExecuteNeverRaises == exec.pc = "done" => exec.outcome.kind = "return"


\* What the code keeps of C5: execute raises for a call without a function
\* field and for no other call.
C5_RaisesOnlyWithoutFunction ==
    exec.pc = "done" => (exec.outcome.kind = "throw" <=> ~exec.toolCall.function.present)

\* C6: a tool error returned as a ToolResult is the only error a request lives
\* through: a non-2xx answer, a network failure or the iteration limit end it
\* in the failed state, with the error recorded, and a request that has ended
\* makes no further model invocation and executes no further tool.
EndsFailed(p) ==
    /\ req'[p].pc = "returned"
    /\ req'[p].outcome = "failed"
    /\ state'.error = req'[p].thrown
    /\ state'.error # NullError
    /\ ~state'.isLoading
    /\ ~state'.isExecutingTools
    /\ state'.messages[Len(state'.messages)].content = [notice |-> req'[p].thrown]

AtLimit(p) ==
    /\ req[p].pc = "exec"
    /\ req[p].iteration = maxIterations
    /\ req[p].index = Len(req[p].tool_calls)

ToolErrorReturned(p) ==
    /\ req[p].pc = "exec"
    /\ \E eng \in {EngineOk, EngineDown} :
          /\ execute(req[p].tool_calls[req[p].index], eng).kind = "return"
          /\ execute(req[p].tool_calls[req[p].index], eng).value.error # NoError
          /\ ToolReturns(p, eng)

C6_OnlyToolErrorsAreSurvived ==
    [][\A p \in Slots :
          /\ (FetchNotOk(p) \/ FetchFails(p)) => EndsFailed(p)
          /\ (AtLimit(p) /\ req'[p] # req[p]) => EndsFailed(p)
          /\ (ToolErrorReturned(p) /\ ~AtLimit(p)) => Running(p)'
          /\ req[p].pc = "returned" => req'[p] = req[p]
          /\ (Running(p) /\ req'[p].pc = "returned" /\ req'[p].outcome = "failed")
                => req'[p].thrown.message \in
                       EndpointFailures \cup {LimitMessage, "TypeError"}]_vars

C6_Witness ==
    \E p \in Slots :
        /\ req[p].pc = "returned"
        /\ req[p].thrown.message = "Request failed"
        /\ state.error = req[p].thrown
        /\ \E i \in 1..Len(state.toolsExecuted) : state.toolsExecuted[i] = "bogus"

\* C7: the iteration-limit error lists every tool name executed during the
\* request exactly once.
C7_LimitErrorListsDistinctTools ==
    \A p \in Slots :
        (req[p].pc = "returned" /\ req[p].thrown.message = LimitMessage) =>
            LET tools == req[p].thrown.tools
            IN  /\ \A i, j \in 1..Len(tools) : tools[i] = tools[j] => i = j
                /\ Range(tools) = Range(state.toolsExecuted)
                /\ state.error = req[p].thrown

C7_Witness ==
    \E p \in Slots :
        /\ req[p].pc = "returned"
        /\ req[p].thrown.message = LimitMessage
        /\ Cardinality(Range(state.toolsExecuted)) = 3
        /\ Len(state.toolsExecuted) > 8

\* C8: the stop-calling-tools directive is sent with the invocation of
\* iteration 7 and with no other, and never enters the conversation history.
HasHint(messages) == \E i \in 1..Len(messages) : messages[i].role = "system"

C9_AtMostEightToolCalls == \A p \in Slots : req[p].executions <= 8

\* C10: sql_query rejects every query that, trimmed and upper-cased, does not
\* begin with SELECT: it returns an error ToolResult and the engine is not
\* contacted.
IsSqlQueryCall(toolCall) ==
    /\ toolCall.function.present
    /\ toolCall.function.name = "sql_query"
    /\ toolCall.function.arguments.json = "object"
    /\ toolCall.function.arguments.fields.query # Absent

QueryOf(toolCall) == Get(toolCall.function.arguments.fields.query)

C10_NonSelectRejected ==
    (/\ exec.pc = "done"
     /\ IsSqlQueryCall(exec.toolCall)
     /\ ~StartsWith(ToUpperCase(Trim(QueryOf(exec.toolCall))), <<"S","E","L","E","C","T">>))
    => /\ exec.outcome.kind = "return"
       /\ exec.outcome.value.error # NoError
       /\ exec.outcome.value.result = NullResult
       /\ exec.outcome.value.call_id = exec.toolCall.id
       /\ exec.outcome.queries = <<>>

C10_Witness ==
    /\ exec.pc = "done"
    /\ IsSqlQueryCall(exec.toolCall)
    /\ QueryOf(exec.toolCall) = <<" ", "x","S","E","L","E","C","T", " ", "1">>
    /\ exec.outcome.queries = <<>>
    /\ exec.outcome.value.error = "Only SELECT queries are allowed for security reasons"

(***************************************************************************)
(* The tools of the executor (SpecExec).                                   *)
(***************************************************************************)
Done == exec.pc = "done"
CallOf(name) ==
    /\ exec.toolCall.function.present
    /\ exec.toolCall.function.name = name
    /\ exec.toolCall.function.arguments.json = "object"
ExecArguments == exec.toolCall.function.arguments.fields
Succeeded == exec.outcome.kind = "return" /\ exec.outcome.value.error = NoError
Rejected ==
    /\ exec.outcome.kind = "return"
    /\ exec.outcome.value.error # NoError
    /\ exec.outcome.value.result = NullResult
    /\ exec.outcome.queries = <<>>

DeniedWords ==
    { <<"D","R","O","P">>, <<"D","E","L","E","T","E">>, <<"I","N","S","E","R","T">>,
      <<"U","P","D","A","T","E">>, <<"A","L","T","E","R">>, <<"C","R","E","A","T","E">>,
      <<"T","R","U","N","C","A","T","E">> }

\* word occurs in text, letter case apart
OccursIn(text, word) ==
    \E i \in 1..Len(text) :
        /\ i + Len(word) - 1 <= Len(text)
        /\ \A j \in 1..Len(word) : UpperChar(text[i + j - 1]) = UpperChar(word[j])

ContainsDenied(text) == \E word \in DeniedWords : OccursIn(text, word)

\* C11: no query sql_query passes to the engine contains DROP, DELETE, INSERT,
\* UPDATE, ALTER, CREATE or TRUNCATE in any letter case anywhere in it, and a
\* query that contains one of them (inside an identifier or a string literal
\* too) is rejected with an error ToolResult, the engine not being contacted.
C11_DenylistedNeverReachesEngine ==
    (Done /\ exec.toolCall.function.present /\ exec.toolCall.function.name = "sql_query")
    => /\ \A k \in 1..Len(exec.outcome.queries) : ~ContainsDenied(exec.outcome.queries[k].text)
       /\ (IsSqlQueryCall(exec.toolCall) /\ ContainsDenied(QueryOf(exec.toolCall)))
             => Rejected

C11_Witness ==
    /\ Done
    /\ IsSqlQueryCall(exec.toolCall)
    /\ QueryOf(exec.toolCall) = <<"S","e","l","e","c","T"," ","u","p","d","a","t","e","_","c">>
    /\ exec.eng.failAt = 0
    /\ exec.outcome.value.error = "Query contains forbidden keyword"
    /\ exec.outcome.queries = <<>>

\* C12: an accepted sql_query whose engine result has n rows returns the first
\* min(n, 100) rows in engine order, row_count = min(n, 100),
\* total_matching = n, and truncated exactly when n > 100.
C12_RowsCappedAtHundred ==
    (Done /\ IsSqlQueryCall(exec.toolCall) /\ Succeeded)
    => LET n == exec.eng.rows
           m == IF n < 100 THEN n ELSE 100
           result == exec.outcome.value.result
       IN  /\ result.rows = [i \in 1..m |-> [row |-> i]]
           /\ result.row_count = m
           /\ result.total_matching = n
           /\ result.truncated <=> n > 100
           /\ Len(exec.outcome.queries) = 1
           /\ exec.outcome.queries[1].text = QueryOf(exec.toolCall)

C12_Witness ==
    /\ Done
    /\ IsSqlQueryCall(exec.toolCall)
    /\ Succeeded
    /\ exec.eng.rows = 101
    /\ exec.outcome.value.result.truncated
    /\ Len(exec.outcome.value.result.rows) = 100

\* C13: whatever integer limit or count the model supplies, and when it gives
\* none, the LIMIT of the query lies in 1..50 for text_search and
\* flexible_search and in 1..20 for get_sample.
RowQueries == {"text_search_rows", "flexible_rows", "sample"}

C13_LimitWithinBounds ==
    Done =>
        LET queries == exec.outcome.queries
            cap == IF CallOf("get_sample") THEN 20 ELSE 50
        IN  (CallOf("text_search") \/ CallOf("flexible_search") \/ CallOf("get_sample"))
            => /\ \A k \in 1..Len(queries) :
                      queries[k].sql \in RowQueries => queries[k].limit \in 1..cap
               /\ Succeeded => queries[1].sql \in RowQueries

C13_Witness ==
    /\ Done
    /\ CallOf("flexible_search")
    /\ ExecArguments.limit = Some(-5)
    /\ Succeeded
    /\ exec.outcome.queries[1].limit = 1
    /\ exec.outcome.value.result.matches_returned = 1
    /\ exec.outcome.value.result.total_matches = 3

\* C14: get_sample with a rating_filter outside 1..5 returns no error: its
\* query carries no rating condition and the sample is drawn from the whole
\* table; with a rating_filter inside 1..5 the query carries Rating = it.
C14_RatingFilterOutsideDomainIgnored ==
    (Done /\ CallOf("get_sample") /\ exec.eng.failAt # 1)
    => LET given == ExecArguments.rating_filter
           inside == given # Absent /\ Get(given) \in 1..5
           query == exec.outcome.queries[1]
           result == exec.outcome.value.result
           table == exec.eng.reviews
           wanted == { i \in 1..Len(table) : ~inside \/ table[i].Rating = Get(given) }
       IN  /\ Succeeded
           /\ Len(exec.outcome.queries) = 1
           /\ query.rating = IF inside THEN given ELSE Absent
           /\ result.sample_size =
                  IF Cardinality(wanted) < query.limit THEN Cardinality(wanted) ELSE query.limit

C14_Witness ==
    /\ Done
    /\ CallOf("get_sample")
    /\ ExecArguments.rating_filter = Some(6)
    /\ Succeeded
    /\ exec.outcome.queries[1].rating = Absent
    /\ exec.outcome.value.result.sample_size = 3

\* C15: flexible_search in AND mode without regex, over any table and any
\* non-empty list of terms: every row returned contains every term, letter
\* case apart, and total_matches is at most each count of term_breakdown.
AndSearch ==
    /\ CallOf("flexible_search")
    /\ ExecArguments.mode \in {Absent, Some("AND")}
    /\ ExecArguments.regex \in {Absent, Some(FALSE)}
    /\ Succeeded

C15_AndRowsContainEveryTerm ==
    (Done /\ AndSearch)
    => LET result == exec.outcome.value.result
       IN  /\ \A k \in 1..Len(result.reviews) : \A i \in 1..Len(result.terms) :
                  OccursIn(exec.eng.reviews[result.reviews[k].id].description, result.terms[i])
           /\ \A i \in 1..Len(result.term_breakdown) :
                  result.total_matches <= result.term_breakdown[i].count

\* What the code keeps of C15: the claim holds for terms free of the LIKE
\* wildcards % and _ when no count query of a term fails.
HasWildcard(term) == \E i \in 1..Len(term) : term[i] \in {"%", "_"}

C15_HoldsWithoutWildcards ==
    (/\ Done
     /\ AndSearch
     /\ \A i \in 1..Len(exec.outcome.value.result.terms) :
            /\ ~HasWildcard(exec.outcome.value.result.terms[i])
            /\ exec.outcome.value.result.term_breakdown[i].count # -1)
    => LET result == exec.outcome.value.result
       IN  /\ \A k \in 1..Len(result.reviews) : \A i \in 1..Len(result.terms) :
                  OccursIn(exec.eng.reviews[result.reviews[k].id].description, result.terms[i])
           /\ \A i \in 1..Len(result.term_breakdown) :
                  result.total_matches <= result.term_breakdown[i].count
           /\ result.total_matches =
                  Cardinality({ r \in 1..Len(exec.eng.reviews) :
                                  \A i \in 1..Len(result.terms) :
                                      OccursIn(exec.eng.reviews[r].description, result.terms[i]) })

(***************************************************************************)
(* The selection context (SpecContext).                                    *)
(***************************************************************************)
Budget == 48000 - 500

\* The request p is at its first fetch and was given a non-empty selection.
WithSelection(p) ==
    /\ req[p].pc = "fetch"
    /\ req[p].iteration = 1
    /\ req[p].selectedPoints # Absent
    /\ Len(Get(req[p].selectedPoints).points) > 0

GivenPoints(p) == Get(req[p].selectedPoints).points
UserMessageSent(p) == req[p].messagesToSend[Len(req[p].messagesToSend)]
ContextSent(p) == UserMessageSent(p).content.selection

RECURSIVE TotalLength(_, _)
TotalLength(points, n) ==
    IF n = 0 THEN 0 ELSE TotalLength(points, n - 1) + ReviewText(n, points[n]).length

\* The length of the first n formatted reviews joined by "\n\n".
JoinedLength(points, n) == TotalLength(points, n) + (IF n > 1 THEN 2 * (n - 1) ELSE 0)

IsPrefix(p) ==
    LET context == ContextSent(p)
    IN  /\ context.reviewsIncluded \in 0..Len(GivenPoints(p))
        /\ Len(context.reviewsList) = context.reviewsIncluded
        /\ \A i \in 1..context.reviewsIncluded :
              /\ context.reviewsList[i].index = i
              /\ context.reviewsList[i].description = DescriptionOf(GivenPoints(p)[i])

\* C16: the context includes exactly the longest prefix of the selected
\* records whose total formatted length does not exceed the budget B - H: the
\* next record is left out only if appending it would exceed the budget.
C16_LongestPrefixIncluded ==
    \A p \in Slots :
        WithSelection(p) =>
            LET k == ContextSent(p).reviewsIncluded
            IN  /\ IsPrefix(p)
                /\ JoinedLength(GivenPoints(p), k) <= Budget
                /\ k < Len(GivenPoints(p)) => JoinedLength(GivenPoints(p), k + 1) > Budget

\* What the code keeps of C16: the included records are a prefix within the
\* budget, the longest one when every record is counted with 4 more
\* characters than it has; of records that take 60% of the budget each,
\* exactly one is included and the context says so.
C16_LongestPrefixCountingFourMore ==
    \A p \in Slots :
        WithSelection(p) =>
            LET k == ContextSent(p).reviewsIncluded
                points == GivenPoints(p)
            IN  /\ IsPrefix(p)
                /\ JoinedLength(points, k) <= Budget
                /\ TotalLength(points, k) + 4 * k <= Budget
                /\ k < Len(points) => TotalLength(points, k + 1) + 4 * (k + 1) > Budget
                /\ (Len(points) >= 2 /\ \A i \in 1..Len(points) :
                                           DescriptionOf(points[i]).length = 28477)
                      => k = 1 /\ ContextSent(p).truncatedNote # Absent

\* C17: the average rating and the rating distribution of the context are
\* computed over the included records with a numeric rating and over no
\* other record, and the truncation note is there exactly when fewer records
\* are included than the total selected.
IsNumeric(point) == point.fields.Rating # Absent /\ Get(point.fields.Rating).type = "number"

RECURSIVE SumOfRatings(_, _)
SumOfRatings(points, n) ==
    IF n = 0 THEN 0
    ELSE SumOfRatings(points, n - 1)
         + (IF IsNumeric(points[n]) THEN Get(points[n].fields.Rating).value ELSE 0)

C17_StatisticsOverIncluded ==
    \A p \in Slots :
        WithSelection(p) =>
            LET context == ContextSent(p)
                points == GivenPoints(p)
                k == context.reviewsIncluded
                rated == { i \in 1..k : IsNumeric(points[i]) }
                n == Cardinality(rated)
                total == IF Get(req[p].selectedPoints).totalCount \in {Absent, Some(0)}
                         THEN Len(points)
                         ELSE Get(Get(req[p].selectedPoints).totalCount)
                shown == context.distributionText
            IN  /\ n = 0 => context.avgRating = [text |-> "N/A"]
                /\ n > 0 =>
                      LET h == context.avgRating.hundredths
                          d == h * n - 100 * SumOfRatings(points, k)
                      IN  -n <= 2 * d /\ 2 * d <= n
                /\ \A i \in rated :
                      Cardinality({ j \in 1..Len(shown) :
                                      shown[j].rating = Get(points[i].fields.Rating).value }) = 1
                /\ \A j \in 1..Len(shown) :
                      /\ shown[j].count > 0
                      /\ shown[j].count =
                             Cardinality({ i \in rated :
                                             Get(points[i].fields.Rating).value = shown[j].rating })
                      /\ j > 1 => shown[j - 1].rating > shown[j].rating
                /\ context.truncatedNote # Absent <=> k < total
                /\ context.totalSelected = total

C17_Witness ==
    \E p \in Slots :
        /\ WithSelection(p)
        /\ Len(GivenPoints(p)) = 3
        /\ ContextSent(p).reviewsIncluded = 2
        /\ ~IsNumeric(GivenPoints(p)[1])
        /\ IsNumeric(GivenPoints(p)[3])
        /\ ContextSent(p).avgRating = [hundredths |-> 500]
        /\ ContextSent(p).truncatedNote # Absent

\* C18: whenever sendMessage is called with a selection predicate (not null,
\* not empty), the user message sent to the model holds the predicate as it
\* was given, whatever records were passed with it, none included.
C18_PredicateAlwaysEmbedded ==
    \A p \in Slots :
        (/\ req[p].pc = "fetch"
         /\ req[p].selectionPredicate # Absent
         /\ Get(req[p].selectionPredicate) # <<>>)
        => /\ "selection" \in DOMAIN UserMessageSent(p).content
           /\ ContextSent(p).predicateInfo = req[p].selectionPredicate
           /\ ContextSent(p).example = Get(req[p].selectionPredicate)

\* What the code keeps of C18: the predicate is embedded as given when at
\* least one selected record comes with it.
C18_PredicateEmbeddedWithRecords ==
    \A p \in Slots :
        (/\ WithSelection(p)
         /\ req[p].selectionPredicate # Absent
         /\ Get(req[p].selectionPredicate) # <<>>)
        => /\ ContextSent(p).predicateInfo = req[p].selectionPredicate
           /\ ContextSent(p).example = Get(req[p].selectionPredicate)

(***************************************************************************)
(* The /api/agent endpoint (SpecApi).                                      *)
(***************************************************************************)
Answered(status) ==
    /\ api.pc = "done"
    /\ Len(api.responses) = 1
    /\ api.responses[1].status = status

BackendUntouched == api.sent = <<>>

\* C19: the endpoint answers OPTIONS with 200, any other method but POST
\* with 405, and a POST without the credential configured with 500, without
\* contacting the backend; every request receives exactly one response.
C19_MethodAndCredentialChecks ==
    /\ Len(api.responses) <= 1
    /\ Len(api.sent) <= 1
    /\ api.pc = "done" => Len(api.responses) = 1
    /\ api.pc \in {"received", "upstream"} => api.responses = <<>>
    /\ (api.pc \notin {"off", "received"} /\ api.request.method = "OPTIONS")
          => Answered(200) /\ BackendUntouched
    /\ (api.pc \notin {"off", "received"} /\ api.request.method \notin {"OPTIONS", "POST"})
          => Answered(405) /\ BackendUntouched
    /\ (/\ api.pc \notin {"off", "received"}
        /\ api.request.method = "POST"
        /\ api.env.OPENROUTER_API_KEY \in {Absent, Some("")})
          => Answered(500) /\ BackendUntouched

C19_Witness ==
    /\ Answered(405)
    /\ api.request.method = "PUT"
    /\ api.request.body.messages.type = "array"
    /\ api.env.OPENROUTER_API_KEY = Some("sk-or")
    /\ BackendUntouched

\* C20: a POST with the credential configured and a malformed body (no body,
\* no messages, or messages that are not an array) is answered with 400 and
\* the backend is not contacted.
Malformed(body) == body.kind # "object" \/ body.messages.type # "array"

C20_MalformedBodyAnswered400 ==
    (/\ api.pc \notin {"off", "received"}
     /\ api.request.method = "POST"
     /\ api.env.OPENROUTER_API_KEY \notin {Absent, Some("")}
     /\ Malformed(api.request.body))
    => Answered(400) /\ BackendUntouched

\* What the code keeps of C20: a body that is there with messages missing
\* or not an array is answered with 400, and no malformed body reaches the
\* backend.
C20_MalformedMessagesAnswered400 ==
    (/\ api.pc \notin {"off", "received"}
     /\ api.request.method = "POST"
     /\ api.env.OPENROUTER_API_KEY \notin {Absent, Some("")}
     /\ Malformed(api.request.body))
    => /\ BackendUntouched
       /\ api.request.body.kind \notin {"undefined", "null"} => Answered(400)
       /\ api.request.body.kind \in {"undefined", "null"} => Answered(500)

\* C21: for a 2xx reply of the backend the endpoint answers with type
\* "tool_calls" exactly when the message of the first choice carries a
\* non-empty list of tool calls, with type "response" and a text otherwise,
\* and with an error status, never 200, when the reply holds no usable choice
\* or message.
Replied(kinds) ==
    /\ api.pc = "done"
    /\ api.upstream # Absent
    /\ Get(api.upstream).kind \in kinds
    /\ Len(api.responses) = 1

C21_AnswerFollowsFirstChoice ==
    Replied({"data", "garbled"}) =>
        LET reply == Get(api.upstream)
            choices == reply.data.choices
            answer == api.responses[1]
            usable == reply.kind = "data" /\ choices # <<>> /\ choices[1].message # Absent
            calls == IF usable THEN Get(choices[1].message).tool_calls ELSE <<>>
        IN  /\ ~usable => answer.status >= 400 /\ answer.json.type = "error"
            /\ usable => answer.status = 200
            /\ (usable /\ calls # <<>>)
                  => answer.json.type = "tool_calls" /\ answer.json.tool_calls = calls
            /\ (usable /\ calls = <<>>)
                  => /\ answer.json.type = "response"
                     /\ answer.json.content # <<>>
                     /\ Get(choices[1].message).content \notin {Absent, Some(<<>>)}
                           => answer.json.content = Get(Get(choices[1].message).content)

C21_Witness ==
    /\ Replied({"data"})
    /\ Get(api.upstream).data.choices = <<[message |-> Absent]>>
    /\ api.responses[1].status = 500

\* C22: no status or body the endpoint answers with depends on the value of
\* the configured credential: from two states that differ in the (non-empty)
\* credential only, the same step under the same reply of the backend sends
\* the same responses.
WithKey(a, key) ==
    [a EXCEPT !.env.OPENROUTER_API_KEY = key,
              !.sent = [i \in 1..Len(a.sent) |-> [a.sent[i] EXCEPT !.authorization = Get(key)]]]

Abandoned(p) == Running(p) /\ ~state.isLoading

\* C23: when the caller abandons an in-flight request with clearChat, the
\* call is cancelled: from then on it invokes the model no more, executes no
\* tool, appends no message, and the conversation stays idle.
C23_AbandonedRequestIsCancelled ==
    [][\A p \in Slots :
          Abandoned(p)
          => /\ req'[p].fetches <= req[p].fetches
             /\ req'[p].executions <= req[p].executions
             /\ state'.messages = state.messages
             /\ ~state'.isLoading /\ ~state'.isExecutingTools
             /\ state'.currentStep = NoStep]_vars

\* C23, what the code does keep: clearChat itself leaves the conversation
\* idle and empty, and touches no request.
C23_ClearChatResetsTheStateOnly ==
    [][(state' = InitialState /\ state # InitialState) => req' = req]_vars


\* The step on which the request p ends, by final answer or by failure.
Ends(p) == Running(p) /\ req'[p].pc = "returned"

\* C24: every accepted request ends, provided each model call is answered and
\* each tool execution returns; on the step it ends isLoading and
\* isExecutingTools are false, currentStep is empty and one assistant message
\* is appended; being accepted appends the user message only, and no step in
\* between appends anything: one assistant message for the request.
C24_RequestEndsIdleWithOneMessage ==
    /\ \A p \in Slots : Running(p) ~> req[p].pc = "returned"
    /\ [][\A p \in Slots :
             /\ Ends(p)
                => /\ ~state'.isLoading /\ ~state'.isExecutingTools
                   /\ state'.currentStep = NoStep
                   /\ Len(state'.messages) = Len(state.messages) + 1
                   /\ SubSeq(state'.messages, 1, Len(state.messages)) = state.messages
                   /\ state'.messages[Len(state'.messages)].role = "assistant"
             /\ (req[p].pc = "unused" /\ Running(p)')
                => /\ Len(state'.messages) = Len(state.messages) + 1
                   /\ state'.messages[Len(state'.messages)].role = "user"
             /\ (Running(p) /\ Running(p)')
                => (state'.messages = state.messages \/ state' = InitialState)]_vars

C24_Witness ==
    \E p \in Slots :
        /\ req[p].pc = "returned" /\ req[p].outcome = "answered"
        /\ \A q \in Slots : ~Running(q)
        /\ ~state.isLoading /\ ~state.isExecutingTools /\ state.currentStep = NoStep
        /\ Len(state.messages) = 3
        /\ state.messages[3].role = "assistant"
        /\ Len(state.messages[3].toolResults) = 2


\* The entries of a message list that satisfy a test, counted.
UserEntries(messages) ==
    Cardinality({ i \in 1..Len(messages) : messages[i].role = "user" })

ToolEntries(messages) ==
    Cardinality({ i \in 1..Len(messages) : messages[i].role = "tool" })

ToolCallEntries(messages) ==
    Cardinality({ i \in 1..Len(messages) :
                    messages[i].role = "assistant" /\ messages[i].tool_calls # <<>> })

TextEntries(messages) ==
    Cardinality({ i \in 1..Len(messages) :
                    messages[i].role = "assistant" /\ messages[i].tool_calls = <<>> })

\* The visible answers that were reached through tool calls, and the tool
\* calls they record.
AnswersWithTools(messages) ==
    Cardinality({ i \in 1..Len(messages) : messages[i].toolResults # <<>> })

RECURSIVE ToolsRecorded(_)
ToolsRecorded(messages) ==
    IF messages = <<>> THEN 0
    ELSE Len(Head(messages).toolResults) + ToolsRecorded(Tail(messages))

\* C25: each model invocation sends the whole history accumulated so far:
\* every user message and every final answer of the conversation, and every
\* tool-call message and tool-result message of this request and of the
\* earlier requests.
C25_FullHistorySent ==
    \A p \in Slots :
        req[p].pc = "fetch"
        => LET sent == req[p].messagesToSend
           IN  /\ UserEntries(sent) >= UserEntries(state.messages)
               /\ TextEntries(sent) >= Len(state.messages) - UserEntries(state.messages)
               /\ ToolEntries(sent)
                      >= ToolsRecorded(state.messages) + Len(req[p].allToolsExecuted)
               /\ ToolCallEntries(sent)
                      >= AnswersWithTools(state.messages) + req[p].iteration - 1

\* C25, what the code does keep: the user messages and the visible answers
\* are sent, and of the tool exchanges those of the request under way only.
C25_TextAndOwnToolExchangesSent ==
    \A p \in Slots :
        req[p].pc = "fetch"
        => LET sent == req[p].messagesToSend
           IN  /\ UserEntries(sent) >= UserEntries(state.messages)
               /\ TextEntries(sent) >= Len(state.messages) - UserEntries(state.messages)
               /\ ToolEntries(sent) = Len(req[p].allToolsExecuted)
               /\ ToolCallEntries(sent) = req[p].iteration - 1


(***************************************************************************)
(* The limits and the terms of the searches (SpecExec).                    *)
(***************************************************************************)
LimitedCall == CallOf("text_search") \/ CallOf("flexible_search") \/ CallOf("get_sample")

\* The limit argument of the call under test, its default and its cap.
GivenLimit == IF CallOf("get_sample") THEN ExecArguments.count ELSE ExecArguments.limit
DefaultLimit == IF CallOf("text_search") THEN 10 ELSE IF CallOf("flexible_search") THEN 15 ELSE 5
LimitCap == IF CallOf("get_sample") THEN 20 ELSE 50

Clamp(x, cap) == Min(Max(x, 1), cap)

\* The limit of every row query the call has sent is the given one.
RowLimitIs(limit) ==
    \A k \in 1..Len(exec.outcome.queries) :
        exec.outcome.queries[k].sql \in RowQueries => exec.outcome.queries[k].limit = limit

\* C26: for every integer x given as the limit of text_search or
\* flexible_search the effective limit is min(max(x, 1), 50), for the count of
\* get_sample min(max(x, 1), 20); an omitted one gives 10, 15 and 5.
C26_EffectiveLimitIsClamp ==
    (Done /\ LimitedCall)
    => RowLimitIs(IF GivenLimit = Absent THEN DefaultLimit
                  ELSE Clamp(Get(GivenLimit), LimitCap))

\* C26, what the code does keep: the clamp for every integer but 0, which is
\* taken for an omitted limit.
C26_ClampExceptZero ==
    (Done /\ LimitedCall)
    => RowLimitIs(IF GivenLimit = Absent \/ GivenLimit = Some(0) THEN DefaultLimit
                  ELSE Clamp(Get(GivenLimit), LimitCap))


FlexibleSearch == Done /\ CallOf("flexible_search")

\* The elements of an array of terms, trimmed, without the empty ones.
RECURSIVE TrimmedNonEmpty(_)
TrimmedNonEmpty(list) ==
    IF list = <<>> THEN <<>>
    ELSE IF Trim(Head(list)) = <<>> THEN TrimmedNonEmpty(Tail(list))
    ELSE <<Trim(Head(list))>> \o TrimmedNonEmpty(Tail(list))

\* The terms a string of terms stands for, for the strings of TermLists.
SplitTable ==
    { << <<"a"," ","a","n","d"," ","c",",","b">>,
         << <<"a">>, <<"c">>, <<"b">> >> >>,
      << <<"a"," "," ","o","R"," ","b",";",";"," ","c"," ">>,
         << <<"a">>, <<"b">>, <<"c">> >> >>,
      << <<"x"," ","A","N","D","y">>,
         << <<"x"," ","A","N","D","y">> >> >>,
      << <<" ",","," ",";">>, <<>> >> }

\* The normalized list the terms argument stands for.
TermsMeant(terms, list) ==
    IF terms.type = "array" THEN list = TrimmedNonEmpty(terms.list)
    ELSE IF terms.type = "string"
    THEN \E pair \in SplitTable : pair[1] = terms.text /\ pair[2] = list
    ELSE list = <<>>

\* The terms the call has searched for: those of its first query, or none.
TermsSearched ==
    IF exec.outcome.queries = <<>> THEN <<>> ELSE exec.outcome.queries[1].terms

\* C27: flexible_search searches for the normalized terms: a string split on
\* commas, semicolons and whitespace-delimited AND / OR in any letter case,
\* an array taken as it is, each piece trimmed, the empty ones dropped, the
\* order kept; with no term left it returns the error 'No search terms
\* provided' and sends the engine nothing.
C27_TermsNormalized ==
    FlexibleSearch
    => LET searched == [i \in 1..Len(TermsSearched) |-> UnescapeQuotes(TermsSearched[i])]
       IN  /\ TermsMeant(ExecArguments.terms, searched)
           /\ searched = <<>>
              <=> (Rejected /\ exec.outcome.value.error = "No search terms provided")
           /\ Succeeded => exec.outcome.value.result.terms = searched

C27_Witness ==
    /\ FlexibleSearch
    /\ ExecArguments.terms = TermsString(<<"a"," "," ","o","R"," ","b",";",";"," ","c"," ">>)
    /\ Succeeded
    /\ exec.outcome.value.result.terms = << <<"a">>, <<"b">>, <<"c">> >>

C27_WitnessNoTerms ==
    /\ FlexibleSearch
    /\ ExecArguments.terms = TermsArray(<< <<" ">>, <<>> >>)
    /\ Rejected


\* The word the conditions of the combined query are joined with.
JoinedWith(word) ==
    exec.outcome.queries # <<>> => exec.outcome.queries[1].joiner = word

\* C28: flexible_search joins the conditions of its terms with OR only when
\* the mode is OR, and with AND when the mode is AND, omitted or anything
\* else.
C28_OrOnlyWhenModeIsOr ==
    FlexibleSearch
    => JoinedWith(IF ExecArguments.mode = Some("OR") THEN "OR" ELSE "AND")

\* C28, what the code does keep: AND when the mode is AND or omitted, OR for
\* every other value.
C28_AndOnlyWhenModeIsAndOrOmitted ==
    FlexibleSearch
    => JoinedWith(IF ExecArguments.mode \in {Absent, Some("AND")} THEN "AND" ELSE "OR")


\* The reviews of the table the term matches, counted: by substring, or as a
\* pattern in regex mode.
ReviewsMatching(term) ==
    Cardinality({ k \in 1..Len(exec.eng.reviews) :
                    ConditionHolds([regex |-> exec.outcome.value.result.regex],
                                   EscapeQuotes(term), exec.eng.reviews[k]) })

\* C29: when the combined query of flexible_search succeeds, term_breakdown
\* holds one entry per normalized term, in order; the count of a term whose
\* count query fails is -1, the other counts are computed, and the call
\* returns success.
C29_TermBreakdownPerTerm ==
    FlexibleSearch
    => /\ Succeeded
          => LET terms == exec.outcome.value.result.terms
                 breakdown == exec.outcome.value.result.term_breakdown
             IN  /\ Len(breakdown) = Len(terms)
                 /\ \A i \in 1..Len(terms) :
                        /\ breakdown[i].term = terms[i]
                        /\ breakdown[i].count =
                              IF exec.eng.failAt = 2 + i THEN -1
                              ELSE ReviewsMatching(terms[i])
       /\ exec.eng.failAt > 2
          => /\ exec.outcome.kind = "return"
             /\ exec.outcome.value.error
                    \in {NoError, "No search terms provided", "Invalid regex pattern"}

C29_Witness ==
    /\ FlexibleSearch
    /\ Succeeded
    /\ exec.eng.failAt = 3
    /\ Len(exec.outcome.value.result.term_breakdown) = 3
    /\ exec.outcome.value.result.term_breakdown[1].count = -1
    /\ exec.outcome.value.result.term_breakdown[2].count = 2
    /\ exec.outcome.value.result.term_breakdown[3].count = 3


(***************************************************************************)
(* A regex search the engine rejects, within a request (SpecSession).      *)
(***************************************************************************)
\* The request p awaits a regex search whose pattern the engine cannot compile.
AwaitsBadRegex(p) ==
    /\ req[p].pc = "exec"
    /\ LET fields == req[p].tool_calls[req[p].index].function.arguments.fields
       IN  /\ req[p].tool_calls[req[p].index].function.name = "flexible_search"
           /\ fields.regex = Some(TRUE)
           /\ \E i \in 1..Len(fields.terms.list) : InvalidPattern(fields.terms.list[i])

InvalidRegexMessage(id) ==
    ApiMessage("tool",
               [json |-> "error", value |-> NullResult, error |-> "Invalid regex pattern"],
               <<>>, id)

RECURSIVE ClosesLiteral(_)
ClosesLiteral(s) ==
    IF s = <<>> THEN FALSE
    ELSE IF Head(s) # "'" THEN ClosesLiteral(Tail(s))
    ELSE IF Len(s) >= 2 /\ s[2] = "'" THEN ClosesLiteral(SubSeq(s, 3, Len(s)))
    ELSE TRUE

HasQuote(s) == \E i \in 1..Len(s) : s[i] = "'"

\* The text sent stands for the fragment: it cannot end its literal, and
\* the engine reads the fragment back from it.
Quoted(sent, fragment) == ~ClosesLiteral(sent) /\ UnescapeQuotes(sent) = fragment

\* C31: in every query text_search and flexible_search send, each single
\* quote of the search fragment is doubled, so the fragment cannot end the
\* string literal it is interpolated into: in the row query, the total-count
\* query and every per-term count query.
C31_QuotesDoubledInEveryQuery ==
    LET queries == exec.outcome.queries
    IN  /\ (Done /\ CallOf("text_search"))
           => \A k \in 1..Len(queries) :
                  Quoted(queries[k].text, Get(ExecArguments.query))
        /\ FlexibleSearch
           => \A k \in 1..Len(queries) :
                  /\ \A i \in 1..Len(queries[k].terms) : ~ClosesLiteral(queries[k].terms[i])
                  /\ k <= 2
                     => TermsMeant(ExecArguments.terms,
                                   [i \in 1..Len(queries[k].terms) |->
                                       UnescapeQuotes(queries[k].terms[i])])
                  /\ k > 2
                     => /\ Len(queries[k].terms) = 1
                        /\ queries[k].terms[1] = queries[1].terms[k - 2]

C31_Witness ==
    /\ FlexibleSearch
    /\ Len(exec.outcome.queries) = 4
    /\ HasQuote(exec.outcome.queries[1].terms[2])
    /\ HasQuote(exec.outcome.queries[2].terms[2])
    /\ HasQuote(exec.outcome.queries[4].terms[1])

C31_WitnessTextSearch ==
    /\ Done /\ CallOf("text_search")
    /\ Len(exec.outcome.queries) = 2
    /\ HasQuote(exec.outcome.queries[2].text)


(***************************************************************************)
(* The endpoint and a backend that refuses (SpecApi).                      *)
(***************************************************************************)
\* C32: when the backend answers with a non-2xx status, the endpoint answers
\* with that status and an error that holds the status text of the backend
\* and nothing of the body of its response.
C32_NotOkSurfacedWithStatusTextOnly ==
    Replied({"status"})
    => LET reply == Get(api.upstream)
           answer == api.responses[1]
       IN  /\ answer.status = reply.status
           /\ answer.json.type = "error"
           /\ answer.json.error = "OpenRouter API error: "
           /\ answer.json.detail = reply.statusText
           /\ DOMAIN answer.json = {"type", "error", "detail"}

C32_Witness ==
    /\ Replied({"status"})
    /\ Get(api.upstream).text # ""
    /\ Get(api.upstream).statusText = "Too Many Requests"
    /\ api.responses[1].status = 429
    /\ api.responses[1].json.detail = "Too Many Requests"


(***************************************************************************)
(* The last invocation of a request (SpecLoop).                            *)
(***************************************************************************)
\* The invocation in flight is the last one the request may make: a reply
\* with tool calls ends the request with the limit of steps.
LastInvocation(p) == req[p].pc = "fetch" /\ req[p].iteration = maxIterations

\* C33: the last model invocation a request may make carries the system hint
\* that tells the model to call no more tools and to give its final answer.
C33_LastInvocationCarriesHint ==
    \A p \in Slots : LastInvocation(p) => HasHint(req[p].messagesToSend)

\* C33, what the code does keep: the hint goes with the invocation before
\* the last one, whose tool calls are still executed.
C33_HintOnTheInvocationBeforeTheLast ==
    \A p \in Slots :
        (req[p].pc = "fetch" /\ req[p].iteration = maxIterations - 1)
        => req[p].messagesToSend = Append(req[p].conversationMessages, SystemHint)


(***************************************************************************)
(* The phases the interface shows (SpecLoop).                              *)
(***************************************************************************)
AwaitingModel(p) == req[p].pc = "fetch"
ExecutingTools(p) == req[p].pc = "exec"

\* C34: the observable state follows Idle -> AwaitingModel ->
\* (ExecutingTools -> AwaitingModel)* -> Responding/Failed -> Idle:
\* isExecutingTools is true only while a tool batch is being executed, it is
\* false whenever a model invocation is in flight, and it is never true
\* while isLoading is false.
C34_ExecutingToolsOnlyDuringBatches ==
    /\ state.isExecutingTools => \E p \in Slots : ExecutingTools(p)
    /\ \A p \in Slots : AwaitingModel(p) => ~state.isExecutingTools
    /\ state.isExecutingTools => state.isLoading

\* C34, what the code does keep: isExecutingTools is true while a batch is
\* executed, false up to the first batch and once the request has ended,
\* and never true while isLoading is false.
C34_ExecutingToolsFromFirstBatchToEnd ==
    /\ \A p \in Slots : ExecutingTools(p) => state.isExecutingTools
    /\ \A p \in Slots :
           AwaitingModel(p) => (state.isExecutingTools <=> req[p].iteration > 1)
    /\ state.isExecutingTools => state.isLoading /\ \E p \in Slots : Running(p)


(***************************************************************************)
(* Results and errors of the tools (SpecLoop, SpecExec).                   *)
(***************************************************************************)
\* A ToolResult carries a result payload and no error, or an error string
\* and no payload.
HasPayload(result) == result.result # NullResult /\ result.error = NoError
HasErrorOnly(result) ==
    result.result = NullResult /\ result.error \notin {NoError, ""}
WellFormed(result) == HasPayload(result) \/ HasErrorOnly(result)

\* The tool message says what the result says: the error string of a failed
\* call, the payload of a successful one.
Conveys(message, result) ==
    /\ message.role = "tool"
    /\ message.tool_call_id = result.call_id
    /\ HasErrorOnly(result)
       => /\ message.content.json = "error"
          /\ message.content.error = result.error
          /\ message.content.value = NullResult
    /\ HasPayload(result)
       => /\ message.content.json = "result"
          /\ message.content.value = result.result
          /\ message.content.error = ""

\* C35: every ToolResult the executor produces carries either a payload and
\* no error or an error string and no payload, and the tool message sent to
\* the model holds the error string exactly when the call failed and the
\* payload otherwise.
C35_ResultOrErrorNeverBoth ==
    \A p \in Slots :
        /\ \A i \in 1..Len(req[p].toolResults) : WellFormed(req[p].toolResults[i])
        /\ (AwaitingModel(p) /\ req[p].iteration > 1)
           => LET results == req[p].toolResults
                  sent == req[p].messagesToSend
                  first == Len(req[p].conversationMessages) - Len(results)
              IN  /\ results # <<>>
                  /\ \A i \in 1..Len(results) : Conveys(sent[first + i], results[i])

C35_Witness ==
    /\ AwaitingModel(1)
    /\ Len(req[1].toolResults) = 2
    /\ HasErrorOnly(req[1].toolResults[1])
    /\ HasErrorOnly(req[1].toolResults[2])
    /\ req[1].messagesToSend[Len(req[1].messagesToSend)].content.json = "error"

C35_WitnessPayload ==
    /\ AwaitingModel(1)
    /\ Len(req[1].toolResults) = 1
    /\ HasPayload(req[1].toolResults[1])
    /\ req[1].messagesToSend[Len(req[1].messagesToSend)].content.json = "result"

\* C35 over every call of the executor harness: what execute returns is
\* well formed.
C35_ExecutorResultsWellFormed ==
    (Done /\ exec.outcome.kind = "return") => WellFormed(exec.outcome.value)


(***************************************************************************)
(* The records of the selection context and their allowance (SpecContext). *)
(***************************************************************************)
\* The formatted length of record i with the 4 characters allowed for its
\* separator.
Allowance(points, i) == ReviewText(i, points[i]).length + 4

RECURSIVE AllowanceSum(_, _)
AllowanceSum(points, n) ==
    IF n = 0 THEN 0 ELSE AllowanceSum(points, n - 1) + Allowance(points, n)

\* C36: the records included in the selection context are a contiguous
\* prefix of the selected records in their order; the sum over them of the
\* formatted length plus the 4-character allowance never exceeds
\* 48000 - 500 = 47500; when the first record does not fit, no record is
\* included and the average is reported as N/A.
C36_PrefixWithinAllowance ==
    \A p \in Slots :
        WithSelection(p) =>
            LET context == ContextSent(p)
                points == GivenPoints(p)
            IN  /\ IsPrefix(p)
                /\ AllowanceSum(points, context.reviewsIncluded) <= 47500
                /\ Allowance(points, 1) > 47500
                   => /\ context.reviewsIncluded = 0
                      /\ context.reviewsList = <<>>
                      /\ context.avgRating = [text |-> "N/A"]

C36_Witness ==
    \E p \in Slots :
        /\ WithSelection(p)
        /\ Len(GivenPoints(p)) = 3
        /\ Allowance(GivenPoints(p), 1) > 47500
        /\ ReviewText(1, GivenPoints(p)[1]).length <= 47500
        /\ IsNumeric(GivenPoints(p)[1])
        /\ ContextSent(p).reviewsIncluded = 0
        /\ ContextSent(p).avgRating = [text |-> "N/A"]

C36_WitnessTwoOfThree ==
    \E p \in Slots :
        /\ WithSelection(p)
        /\ Len(GivenPoints(p)) = 3
        /\ ContextSent(p).reviewsIncluded = 2
        /\ AllowanceSum(GivenPoints(p), 3) > 47500


(***************************************************************************)
(* The payloads of one request, one after the other (SpecLoop).            *)
(***************************************************************************)
WithoutHint(messages) == SelectSeq(messages, LAMBDA m : m.role # "system")

StrictPrefix(s, t) == Len(s) < Len(t) /\ SubSeq(t, 1, Len(s)) = s

\* The step on which the request p, its batch executed, invokes the model
\* again; req[p].messagesToSend still is the payload of the invocation before.
InvokesAgain(p) == req[p].pc = "exec" /\ req'[p].pc = "fetch"

\* C37: within one request the messages sent to the model are append-only:
\* the system directive apart, the payload of each invocation has the payload
\* of the invocation before it as a strict prefix; no message already sent
\* is modified, reordered or dropped.
C37_PayloadsAppendOnly ==
    [][\A p \in Slots :
          /\ InvokesAgain(p)
             => StrictPrefix(WithoutHint(req[p].messagesToSend),
                             WithoutHint(req'[p].messagesToSend))
          /\ (Running(p) /\ Running(p)')
             => /\ SubSeq(req'[p].conversationMessages, 1, Len(req[p].conversationMessages))
                      = req[p].conversationMessages
                /\ WithoutHint(req'[p].messagesToSend) = req'[p].conversationMessages]_vars

C37_Witness ==
    \E p \in Slots :
        /\ req[p].pc = "fetch"
        /\ req[p].iteration = maxIterations
        /\ Len(req[p].messagesToSend) >= 2 * maxIterations
        /\ ~HasHint(req[p].messagesToSend)


(***************************************************************************)
(* Tool results and the invocation that follows them (SpecSession).        *)
(***************************************************************************)
\* The step on which the last call of the batch of request p returns.
BatchReturns(p) ==
    /\ req[p].pc = "exec"
    /\ req[p].index = Len(req[p].tool_calls)
    /\ req'[p] # req[p]

\* The results of the batch are the last messages of the payload.
FedBack(r, tool_calls) ==
    /\ r.pc = "fetch"
    /\ Len(r.messagesToSend) > Len(tool_calls)
    /\ LET sent == WithoutHint(r.messagesToSend)
           first == Len(sent) - Len(tool_calls)
       IN  /\ sent[first].tool_calls = tool_calls
           /\ \A i \in 1..Len(tool_calls) :
                  /\ sent[first + i].role = "tool"
                  /\ sent[first + i].tool_call_id = tool_calls[i].id

\* C38: every tool batch the controller executes is followed, within the
\* same request, by a model invocation whose messages include the results
\* of the batch: no tool is executed whose result is never fed back.
C38_EveryBatchFedBack ==
    [][\A p \in Slots : BatchReturns(p) => FedBack(req'[p], req[p].tool_calls)]_vars

\* C38, what the code does keep: the batches of the first seven invocations
\* are fed back; the batch of the eighth is executed and the request ends.
C38_FedBackUnlessLastInvocation ==
    [][\A p \in Slots :
          BatchReturns(p)
          => IF req[p].iteration < maxIterations
             THEN FedBack(req'[p], req[p].tool_calls)
             ELSE /\ req'[p].pc = "returned"
                  /\ req'[p].thrown.message = LimitMessage]_vars


(***************************************************************************)
(* The filter a sample reports (SpecExec).                                 *)
(***************************************************************************)
Sampled == Done /\ CallOf("get_sample") /\ Succeeded

\* C39: the filter field of a get_sample result describes the query that was
\* run: it is 'none' exactly when the query carried no rating condition, and
\* it names a rating exactly when the query was restricted to that rating.
C39_FilterDescribesTheQuery ==
    Sampled => exec.outcome.value.result.filter = exec.outcome.queries[1].rating

\* C39, what the code does keep: the filter names the rating_filter that was
\* given (0 apart), which is the condition of the query for 1..5 only.
C39_FilterNamesTheArgument ==
    Sampled
    => LET given == ExecArguments.rating_filter
           filter == exec.outcome.value.result.filter
       IN  /\ filter = IF given \in {Absent, Some(0)} THEN Absent ELSE given
           /\ (given # Absent /\ Get(given) \in 1..5)
              => filter = exec.outcome.queries[1].rating
           /\ filter = Absent => exec.outcome.queries[1].rating = Absent


(***************************************************************************)
(* Calls of sendMessage that are not accepted (Spec).                      *)
(***************************************************************************)
\* The step is an accepted call of sendMessage: a request begins.
Accepts(p) == req[p].pc = "unused" /\ req'[p].pc # "unused"

InFlight == \E q \in Slots : Running(q)

\* No model invocation is made and no tool executed; messages, isLoading,
\* isExecutingTools and toolsExecuted stay as they are.
NothingDone ==
    /\ req' = req
    /\ state'.messages = state.messages
    /\ state'.isLoading = state.isLoading
    /\ state'.isExecutingTools = state.isExecutingTools
    /\ state'.toolsExecuted = state.toolsExecuted

\* The step changes the state without starting or advancing a request, and
\* is not clearChat: what a call that is not accepted may do.
RejectedCallActs == state' # state /\ req' = req /\ state' # InitialState

\* C40: a sendMessage call that is not accepted - the text is empty or
\* blank, a request is in flight, or the tool executor is not initialised -
\* makes no model invocation, executes no tool and leaves messages,
\* isLoading, isExecutingTools and toolsExecuted unchanged; the error field
\* is set in the not-initialised case only.
C40_RejectedCallChangesNothing ==
    [][/\ \A p \in Slots :
             Accepts(p)
             => /\ ~InFlight
                /\ toolExecutorRef
                /\ Trim(state'.messages[Len(state'.messages)].content.text) # <<>>
       /\ RejectedCallActs
          => /\ NothingDone
             /\ ~toolExecutorRef
             /\ state' = [state EXCEPT !.error = ErrorOf("Database not ready", <<>>)]]_vars

\* C40, what the code does keep: the same with the request in flight taken
\* as the closure of the last render knows it.
C40_RejectedAsTheLastRenderKnows ==
    [][/\ \A p \in Slots :
             Accepts(p)
             => /\ ~rendered.isLoading
                /\ toolExecutorRef
                /\ Trim(state'.messages[Len(state'.messages)].content.text) # <<>>
       /\ RejectedCallActs
          => /\ NothingDone
             /\ ~toolExecutorRef
             /\ state' = [state EXCEPT !.error = ErrorOf("Database not ready", <<>>)]]_vars


=============================================================================
